---- MODULE Spec2Model ----
(***************************************************************************)
(* Indian Stock Market Analysis Dashboard: the data module (data.py), the  *)
(* configuration constants it shares with config.py, and the arithmetic    *)
(* the Scenarios and Data Explorer pages of streamlit_app.py apply to it.  *)
(*                                                                         *)
(* Number representation.  Every number of the program is a Python float   *)
(* or int written as a decimal literal.  The model keeps them exact:       *)
(*   - a percentage or P/E literal with one decimal digit is an integer    *)
(*     count of tenths (5.5 -> 55, 25.0 -> 250, -35.4 -> -354);            *)
(*   - a probability is an integer count of hundredths (0.50 -> 50);       *)
(*   - a product of such numbers is a signed decimal [s, m, e] = s*m/10^e  *)
(*     whose mantissa m is an arbitrary-precision natural (Big), so that   *)
(*     no product is truncated to the 32 bits of a model integer;          *)
(*   - x ** (1/n) is the n-th root truncated to three decimal digits.      *)
(* Text is a sequence of one-character strings; a character outside ASCII  *)
(* is written as its code point ("U+1F7E1").                               *)
(***************************************************************************)
EXTENDS Integers, Sequences, FiniteSets, TLC

(***************************************************************************)
(* Arbitrary-precision naturals: little-endian limbs, no leading zero limb *)
(***************************************************************************)
LimbBase == 10^4

RECURSIVE BigOfNat(_)
BigOfNat(n) ==
    IF n = 0 THEN <<>> ELSE <<n % LimbBase>> \o BigOfNat(n \div LimbBase)

RECURSIVE BigMulCarry(_, _, _)
BigMulCarry(a, k, carry) ==
    IF a = <<>>
    THEN BigOfNat(carry)
    ELSE LET t == a[1] * k + carry
         IN  <<t % LimbBase>> \o BigMulCarry(Tail(a), k, t \div LimbBase)

\* a * k for a small natural k (k < 200000)
BigMulSmall(a, k) == IF k = 0 \/ a = <<>> THEN <<>> ELSE BigMulCarry(a, k, 0)

RECURSIVE BigAddCarry(_, _, _)
BigAddCarry(a, b, carry) ==
    IF a = <<>> /\ b = <<>>
    THEN BigOfNat(carry)
    ELSE LET x == IF a = <<>> THEN 0 ELSE a[1]
             y == IF b = <<>> THEN 0 ELSE b[1]
             t == x + y + carry
         IN  <<t % LimbBase>>
             \o BigAddCarry(IF a = <<>> THEN <<>> ELSE Tail(a),
                            IF b = <<>> THEN <<>> ELSE Tail(b),
                            t \div LimbBase)

BigAdd(a, b) == BigAddCarry(a, b, 0)

RECURSIVE BigMul(_, _)
BigMul(a, b) ==
    IF a = <<>> \/ b = <<>>
    THEN <<>>
    ELSE LET rest == BigMul(a, Tail(b))
             shifted == IF rest = <<>> THEN <<>> ELSE <<0>> \o rest
         IN  BigAdd(BigMulSmall(a, b[1]), shifted)

RECURSIVE BigLeqFrom(_, _, _)
BigLeqFrom(a, b, i) ==
    IF i = 0 THEN TRUE
    ELSE IF a[i] # b[i] THEN a[i] < b[i]
    ELSE BigLeqFrom(a, b, i - 1)

BigLeq(a, b) ==
    IF Len(a) # Len(b) THEN Len(a) < Len(b) ELSE BigLeqFrom(a, b, Len(a))

RECURSIVE BigShift10(_, _)
BigShift10(a, n) == IF n = 0 THEN a ELSE BigShift10(BigMulSmall(a, 10), n - 1)

(***************************************************************************)
(* Signed exact decimals s * m / 10^e                                      *)
(***************************************************************************)
Abs(n) == IF n < 0 THEN -n ELSE n

\* the number n / 10^e, n an integer
DecOf(n, e) == [s |-> IF n < 0 THEN -1 ELSE 1, m |-> BigOfNat(Abs(n)), e |-> e]

DecMul(a, b) ==
    LET m == BigMul(a.m, b.m)
    IN  [s |-> IF m = <<>> THEN 1 ELSE a.s * b.s, m |-> m, e |-> a.e + b.e]

\* a / 10^n
DecDivPow10(a, n) == [a EXCEPT !.e = a.e + n]

DecIsZero(a) == a.m = <<>>

\* a <= b
DecLeq(a, b) ==
    LET am == BigShift10(a.m, b.e)
        bm == BigShift10(b.m, a.e)
    IN  IF a.s = 1 /\ b.s = 1 THEN BigLeq(am, bm)
        ELSE IF a.s = -1 /\ b.s = -1 THEN BigLeq(bm, am)
        ELSE a.s = -1 \/ (am = <<>> /\ bm = <<>>)

DecEq(a, b) == DecLeq(a, b) /\ DecLeq(b, a)

(***************************************************************************)
(* Tables (pandas DataFrame): column names and rows of typed cells         *)
(***************************************************************************)
StrCell(chars) == [t |-> "str", s |-> chars, v |-> 0]
FloatCell(tenths) == [t |-> "float", s |-> <<>>, v |-> tenths]
IntCell(n) == [t |-> "int", s |-> <<>>, v |-> n]

HasCol(tbl, name) == \E i \in 1..Len(tbl.cols) : tbl.cols[i] = name
ColIndex(tbl, name) == CHOOSE i \in 1..Len(tbl.cols) : tbl.cols[i] = name
NRows(tbl) == Len(tbl.rows)
\* df.iloc[r][name] / df[name][r]
Cell(tbl, r, name) == tbl.rows[r][ColIndex(tbl, name)]
IsNumber(cell) == cell.t \in {"float", "int"}
\* a numeric cell in tenths, whatever its dtype
Tenths(cell) == IF cell.t = "int" THEN 10 * cell.v ELSE cell.v

(***************************************************************************)
(* data.py: constants and the literal data sets                            *)
(***************************************************************************)
BASE_EPS_FY24 == 2150

get_five_year_data ==
    [cols |-> <<
        \* Fiscal Year
        <<"F", "i", "s", "c", "a", "l", " ", "Y", "e", "a", "r">>,
        \* Revenue Growth (%)
        <<"R", "e", "v", "e", "n", "u", "e", " ", "G", "r", "o", "w", "t", "h", " ", "(", "%", ")">>,
        \* EBITDA Growth (%)
        <<"E", "B", "I", "T", "D", "A", " ", "G", "r", "o", "w", "t", "h", " ", "(", "%", ")">>,
        \* PAT Growth (%)
        <<"P", "A", "T", " ", "G", "r", "o", "w", "t", "h", " ", "(", "%", ")">>,
        \* EBITDA Margin (%)
        <<"E", "B", "I", "T", "D", "A", " ", "M", "a", "r", "g", "i", "n", " ", "(", "%", ")">>,
        \* PAT Margin (%)
        <<"P", "A", "T", " ", "M", "a", "r", "g", "i", "n", " ", "(", "%", ")">>
     >>,
     rows |-> <<
        \* FY2021 | 10.5 | 11.2 | 8.3 | 32.1 | 9.8
        <<StrCell(<<"F", "Y", "2", "0", "2", "1">>), FloatCell(105), FloatCell(112), FloatCell(83), FloatCell(321), FloatCell(98)>>,
        \* FY2022 | 15.4 | 22.8 | 25.7 | 33.5 | 10.4
        <<StrCell(<<"F", "Y", "2", "0", "2", "2">>), FloatCell(154), FloatCell(228), FloatCell(257), FloatCell(335), FloatCell(104)>>,
        \* FY2023 | 13.8 | 18.5 | 22.1 | 33.2 | 10.6
        <<StrCell(<<"F", "Y", "2", "0", "2", "3">>), FloatCell(138), FloatCell(185), FloatCell(221), FloatCell(332), FloatCell(106)>>,
        \* FY2024 | 10.7 | 14.3 | 16.8 | 33.0 | 10.5
        <<StrCell(<<"F", "Y", "2", "0", "2", "4">>), FloatCell(107), FloatCell(143), FloatCell(168), FloatCell(330), FloatCell(105)>>,
        \* FY2025 YTD | 6.9 | 2.6 | 4.6 | 33.1 | 10.7
        <<StrCell(<<"F", "Y", "2", "0", "2", "5", " ", "Y", "T", "D">>), FloatCell(69), FloatCell(26), FloatCell(46), FloatCell(331), FloatCell(107)>>
     >>]

get_quarterly_data ==
    [cols |-> <<
        \* Quarter
        <<"Q", "u", "a", "r", "t", "e", "r">>,
        \* Revenue Growth (%)
        <<"R", "e", "v", "e", "n", "u", "e", " ", "G", "r", "o", "w", "t", "h", " ", "(", "%", ")">>,
        \* EBITDA Growth (%)
        <<"E", "B", "I", "T", "D", "A", " ", "G", "r", "o", "w", "t", "h", " ", "(", "%", ")">>,
        \* PAT Growth (%)
        <<"P", "A", "T", " ", "G", "r", "o", "w", "t", "h", " ", "(", "%", ")">>
     >>,
     rows |-> <<
        \* Q1FY25 | 9.6 | 9.4 | 0.8
        <<StrCell(<<"Q", "1", "F", "Y", "2", "5">>), FloatCell(96), FloatCell(94), FloatCell(8)>>,
        \* Q2FY25 | 6.6 | 1.3 | -1.0
        <<StrCell(<<"Q", "2", "F", "Y", "2", "5">>), FloatCell(66), FloatCell(13), FloatCell(-10)>>,
        \* Q3FY25 | 4.5 | 6.9 | 9.5
        <<StrCell(<<"Q", "3", "F", "Y", "2", "5">>), FloatCell(45), FloatCell(69), FloatCell(95)>>
     >>]

get_sector_data ==
    [cols |-> <<
        \* Sector
        <<"S", "e", "c", "t", "o", "r">>,
        \* Revenue Growth FY25 (%)
        <<"R", "e", "v", "e", "n", "u", "e", " ", "G", "r", "o", "w", "t", "h", " ", "F", "Y", "2", "5", " ", "(", "%", ")">>,
        \* Profit Growth FY25 (%)
        <<"P", "r", "o", "f", "i", "t", " ", "G", "r", "o", "w", "t", "h", " ", "F", "Y", "2", "5", " ", "(", "%", ")">>,
        \* Weight in Nifty (%)
        <<"W", "e", "i", "g", "h", "t", " ", "i", "n", " ", "N", "i", "f", "t", "y", " ", "(", "%", ")">>,
        \* Status
        <<"S", "t", "a", "t", "u", "s">>
     >>,
     rows |-> <<
        \* Financials | 12.3 | 17.3 | 35 | {U+1F7E1} SLOWING
        <<StrCell(<<"F", "i", "n", "a", "n", "c", "i", "a", "l", "s">>), FloatCell(123), FloatCell(173), IntCell(35), StrCell(<<"U+1F7E1", " ", "S", "L", "O", "W", "I", "N", "G">>)>>,
        \* Energy | 1.4 | -35.4 | 30 | {U+1F534} CRISIS
        <<StrCell(<<"E", "n", "e", "r", "g", "y">>), FloatCell(14), FloatCell(-354), IntCell(30), StrCell(<<"U+1F534", " ", "C", "R", "I", "S", "I", "S">>)>>,
        \* IT | 7.0 | 8.7 | 9 | {U+1F7E2} STABILIZING
        <<StrCell(<<"I", "T">>), FloatCell(70), FloatCell(87), IntCell(9), StrCell(<<"U+1F7E2", " ", "S", "T", "A", "B", "I", "L", "I", "Z", "I", "N", "G">>)>>,
        \* Industrials | 10.6 | 25.7 | 5 | {U+1F7E2} STRONG
        <<StrCell(<<"I", "n", "d", "u", "s", "t", "r", "i", "a", "l", "s">>), FloatCell(106), FloatCell(257), IntCell(5), StrCell(<<"U+1F7E2", " ", "S", "T", "R", "O", "N", "G">>)>>,
        \* Materials | 1.7 | -1.4 | 11 | {U+26A0}{U+FE0F} MIXED
        <<StrCell(<<"M", "a", "t", "e", "r", "i", "a", "l", "s">>), FloatCell(17), FloatCell(-14), IntCell(11), StrCell(<<"U+26A0", "U+FE0F", " ", "M", "I", "X", "E", "D">>)>>,
        \* Consumer Disc. | 10.5 | 6.6 | 9 | {U+26A0}{U+FE0F} WEAKENING
        <<StrCell(<<"C", "o", "n", "s", "u", "m", "e", "r", " ", "D", "i", "s", "c", ".">>), FloatCell(105), FloatCell(66), IntCell(9), StrCell(<<"U+26A0", "U+FE0F", " ", "W", "E", "A", "K", "E", "N", "I", "N", "G">>)>>,
        \* Healthcare | 7.6 | 32.9 | 3 | {U+1F7E2} STRONG
        <<StrCell(<<"H", "e", "a", "l", "t", "h", "c", "a", "r", "e">>), FloatCell(76), FloatCell(329), IntCell(3), StrCell(<<"U+1F7E2", " ", "S", "T", "R", "O", "N", "G">>)>>,
        \* Consumer Staples | 10.6 | 6.1 | 3 | {U+26A0}{U+FE0F} MIXED
        <<StrCell(<<"C", "o", "n", "s", "u", "m", "e", "r", " ", "S", "t", "a", "p", "l", "e", "s">>), FloatCell(106), FloatCell(61), IntCell(3), StrCell(<<"U+26A0", "U+FE0F", " ", "M", "I", "X", "E", "D">>)>>,
        \* Utilities | 7.5 | -6.9 | 3 | {U+26A0}{U+FE0F} DECLINING
        <<StrCell(<<"U", "t", "i", "l", "i", "t", "i", "e", "s">>), FloatCell(75), FloatCell(-69), IntCell(3), StrCell(<<"U+26A0", "U+FE0F", " ", "D", "E", "C", "L", "I", "N", "I", "N", "G">>)>>,
        \* Telecom | 8.0 | 95.9 | 2 | {U+1F7E2} EXCEPTIONAL
        <<StrCell(<<"T", "e", "l", "e", "c", "o", "m">>), FloatCell(80), FloatCell(959), IntCell(2), StrCell(<<"U+1F7E2", " ", "E", "X", "C", "E", "P", "T", "I", "O", "N", "A", "L">>)>>
     >>]

get_downgrade_data ==
    [cols |-> <<
        \* Date
        <<"D", "a", "t", "e">>,
        \* Period
        <<"P", "e", "r", "i", "o", "d">>,
        \* FY25 Profit Growth (%)
        <<"F", "Y", "2", "5", " ", "P", "r", "o", "f", "i", "t", " ", "G", "r", "o", "w", "t", "h", " ", "(", "%", ")">>
     >>,
     rows |-> <<
        \* Sep 30, 2024 | Sep-24 | 9.8
        <<StrCell(<<"S", "e", "p", " ", "3", "0", ",", " ", "2", "0", "2", "4">>), StrCell(<<"S", "e", "p", "-", "2", "4">>), FloatCell(98)>>,
        \* Oct 31, 2024 | Oct-24 | 8.2
        <<StrCell(<<"O", "c", "t", " ", "3", "1", ",", " ", "2", "0", "2", "4">>), StrCell(<<"O", "c", "t", "-", "2", "4">>), FloatCell(82)>>,
        \* Nov 30, 2024 | Nov-24 | 5.8
        <<StrCell(<<"N", "o", "v", " ", "3", "0", ",", " ", "2", "0", "2", "4">>), StrCell(<<"N", "o", "v", "-", "2", "4">>), FloatCell(58)>>,
        \* Dec 31, 2024 | Dec-24 | 3.2
        <<StrCell(<<"D", "e", "c", " ", "3", "1", ",", " ", "2", "0", "2", "4">>), StrCell(<<"D", "e", "c", "-", "2", "4">>), FloatCell(32)>>,
        \* Jan 31, 2025 | Jan-25 | 4.9
        <<StrCell(<<"J", "a", "n", " ", "3", "1", ",", " ", "2", "0", "2", "5">>), StrCell(<<"J", "a", "n", "-", "2", "5">>), FloatCell(49)>>,
        \* Feb 21, 2025 | Feb-25 | 3.2
        <<StrCell(<<"F", "e", "b", " ", "2", "1", ",", " ", "2", "0", "2", "5">>), StrCell(<<"F", "e", "b", "-", "2", "5">>), FloatCell(32)>>
     >>]

ScenarioDefinitions ==
    \* Base Case (50%)
    <<"B", "a", "s", "e", " ", "C", "a", "s", "e", " ", "(", "5", "0", "%", ")">> :>
        [description |-> <<"M", "a", "r", "g", "i", "n", " ", "R", "e", "s", "i", "l", "i", "e", "n", "c", "e", ",", " ", "S", "l", "o", "w", " ", "R", "e", "v", "e", "n", "u", "e">>,
         fy25_earnings |-> 55,
         fy26_earnings |-> 110,
         fy27_earnings |-> 125,
         fy25_pe |-> 250,
         fy26_pe |-> 245,
         fy27_pe |-> 240,
         color |-> <<"#", "F", "F", "A", "5", "0", "0">>,
         probability |-> 50] @@
    \* Bear Case (25%)
    <<"B", "e", "a", "r", " ", "C", "a", "s", "e", " ", "(", "2", "5", "%", ")">> :>
        [description |-> <<"M", "a", "r", "g", "i", "n", " ", "C", "o", "m", "p", "r", "e", "s", "s", "i", "o", "n", ",", " ", "I", "n", "p", "u", "t", " ", "C", "o", "s", "t", " ", "S", "p", "i", "k", "e">>,
         fy25_earnings |-> 20,
         fy26_earnings |-> 50,
         fy27_earnings |-> 75,
         fy25_pe |-> 230,
         fy26_pe |-> 220,
         fy27_pe |-> 215,
         color |-> <<"#", "F", "F", "0", "0", "0", "0">>,
         probability |-> 25] @@
    \* Bull Case (25%)
    <<"B", "u", "l", "l", " ", "C", "a", "s", "e", " ", "(", "2", "5", "%", ")">> :>
        [description |-> <<"R", "e", "v", "e", "n", "u", "e", " ", "R", "e", "c", "o", "v", "e", "r", "y", " ", "+", " ", "M", "a", "r", "g", "i", "n", " ", "S", "t", "a", "b", "i", "l", "i", "t", "y">>,
         fy25_earnings |-> 90,
         fy26_earnings |-> 140,
         fy27_earnings |-> 155,
         fy25_pe |-> 255,
         fy26_pe |-> 260,
         fy27_pe |-> 265,
         color |-> <<"#", "0", "0", "A", "A", "0", "0">>,
         probability |-> 25]

\* scenario definitions whose Bear Case weighs 0.30
get_scenarios_bear_30 ==
    [ScenarioDefinitions EXCEPT ![<<"B", "e", "a", "r", " ", "C", "a", "s", "e", " ", "(", "2", "5", "%", ")">>].probability = 30]

\* scenario definitions whose Bear Case ends on a P/E of 20.0
get_scenarios_bear_pe_20 ==
    [ScenarioDefinitions EXCEPT ![<<"B", "e", "a", "r", " ", "C", "a", "s", "e", " ", "(", "2", "5", "%", ")">>].fy27_pe = 200]

get_scenarios == ScenarioDefinitions

(***************************************************************************)
(* config.py: the constants it shares with data.py                         *)
(***************************************************************************)
SCENARIO_WEIGHTS ==
    \* Base Case (50%)
    <<"B", "a", "s", "e", " ", "C", "a", "s", "e", " ", "(", "5", "0", "%", ")">> :> 50 @@
    \* Bear Case (25%)
    <<"B", "e", "a", "r", " ", "C", "a", "s", "e", " ", "(", "2", "5", "%", ")">> :> 25 @@
    \* Bull Case (25%)
    <<"B", "u", "l", "l", " ", "C", "a", "s", "e", " ", "(", "2", "5", "%", ")">> :> 25

\* BASE_EPS_FY24 and CURRENT_NIFTY as config.py sets them
DataConfiguration == [BASE_EPS_FY24 |-> 920, CURRENT_NIFTY |-> 23000]


(***************************************************************************)
(* data.py: calculate_nifty_levels                                         *)
(***************************************************************************)
ProjectionKeys ==
    {"fy25_earnings", "fy26_earnings", "fy27_earnings", "fy25_pe", "fy26_pe", "fy27_pe"}

\* a growth factor that takes the percentage for a fraction: 1 + g
GrowthFactorUnscaled(g) == DecOf(10 + g, 1)

\* 1 + g / 100, g a percentage in tenths
GrowthFactor(g) == DecOf(1000 + g, 3)

\* a projection that grows every year's EPS from the base year's instead of
\* from the year before
ScenarioLevelsNotCompounded(data) ==
    LET base == DecOf(BASE_EPS_FY24, 0)
        fy25_eps == DecMul(base, DecOf(1000 + data.fy25_earnings, 3))
        fy26_eps == DecMul(base, DecOf(1000 + data.fy26_earnings, 3))
        fy27_eps == DecMul(base, DecOf(1000 + data.fy27_earnings, 3))
    IN  <<DecDivPow10(DecMul(fy25_eps, DecOf(data.fy25_pe, 1)), 3),
          DecDivPow10(DecMul(fy26_eps, DecOf(data.fy26_pe, 1)), 3),
          DecDivPow10(DecMul(fy27_eps, DecOf(data.fy27_pe, 1)), 3)>>

\* the try body of the loop: EPS compounded from the base year, each year's
\* EPS times that year's P/E, stored in thousands
ScenarioLevels(data) ==
    LET fy25_eps == DecMul(DecOf(BASE_EPS_FY24, 0), GrowthFactor(data.fy25_earnings))
        fy26_eps == DecMul(fy25_eps, GrowthFactor(data.fy26_earnings))
        fy27_eps == DecMul(fy26_eps, GrowthFactor(data.fy27_earnings))
        fy25_nifty == DecMul(fy25_eps, DecOf(data.fy25_pe, 1))
        fy26_nifty == DecMul(fy26_eps, DecOf(data.fy26_pe, 1))
        fy27_nifty == DecMul(fy27_eps, DecOf(data.fy27_pe, 1))
    IN  <<DecDivPow10(fy25_nifty, 3), DecDivPow10(fy26_nifty, 3), DecDivPow10(fy27_nifty, 3)>>

\* the try body raises on a missing field (KeyError)
ProjectionRaises(data) == ~(ProjectionKeys \subseteq DOMAIN data)

\* a loop that leaves out the scenario whose computation raises
calculate_nifty_levels_skipping(scs) ==
    [scenario \in {k \in DOMAIN scs : ~ProjectionRaises(scs[k])} |->
        ScenarioLevels(scs[scenario])]

\* one entry per scenario; a scenario whose computation raises gets [0, 0, 0]
calculate_nifty_levels(scs) ==
    [scenario \in DOMAIN scs |->
        IF ProjectionRaises(scs[scenario])
        THEN <<DecOf(0, 0), DecOf(0, 0), DecOf(0, 0)>>
        ELSE ScenarioLevels(scs[scenario])]

(***************************************************************************)
(* x ** (1/n) for x = num/den >= 0: floor(1000 * x^(1/n)), found by        *)
(* bisection on r^n * den <= num * 1000^n                                  *)
(***************************************************************************)
RECURSIVE BigPow(_, _)
BigPow(r, n) == IF n = 0 THEN BigOfNat(1) ELSE BigMul(BigOfNat(r), BigPow(r, n - 1))

RootFits(r, n, num, den) ==
    BigLeq(BigMul(BigPow(r, n), BigOfNat(den)), BigMul(BigOfNat(num), BigPow(1000, n)))

RECURSIVE RootBisect(_, _, _, _, _)
RootBisect(lo, hi, n, num, den) ==
    IF hi - lo <= 1 THEN lo
    ELSE LET mid == (lo + hi) \div 2
         IN  IF RootFits(mid, n, num, den)
             THEN RootBisect(mid, hi, n, num, den)
             ELSE RootBisect(lo, mid, n, num, den)

RootMilli(n, num, den) == RootBisect(0, 1000 * (num \div den + 1), n, num, den)

(***************************************************************************)
(* data.py: calculate_key_metrics                                          *)
(***************************************************************************)
ColRevenueGrowth ==
    <<"R", "e", "v", "e", "n", "u", "e", " ", "G", "r", "o", "w", "t", "h", " ", "(", "%", ")">>
ColPatGrowth ==
    <<"P", "A", "T", " ", "G", "r", "o", "w", "t", "h", " ", "(", "%", ")">>

\* a CAGR over five periods (one per table row) instead of four
KeyMetricsCagrFivePeriods(first, last) ==
    IF first > 0 /\ last > 0 THEN RootMilli(5, last, first) - 1000 ELSE 0

\* ((last / first) ** (1/4) - 1) * 100 when both are positive, else 0;
\* first and last in tenths, the result in tenths of a percent
KeyMetricsCagr(first, last) ==
    IF first > 0 /\ last > 0 THEN RootMilli(4, last, first) - 1000 ELSE 0

KeyMetricsFallback ==
    [revenue_cagr |-> 0, pat_cagr |-> 0,
     current_rev_growth |-> 0, current_pat_growth |-> 0,
     revenue_trend |-> "Unknown", profit_trend |-> "Unknown",
     divergence_factor |-> 0,
     nifty_current |-> 0, pe_current |-> 0, pe_fair_range |-> <<0, 0>>]

\* the reads of the try body succeed: both tables have a row and the two
\* columns, and the cells compared with 0 are numbers
KeyMetricsReadable(fy, q) ==
    /\ NRows(fy) >= 1 /\ NRows(q) >= 1
    /\ HasCol(fy, ColRevenueGrowth) /\ HasCol(fy, ColPatGrowth)
    /\ HasCol(q, ColRevenueGrowth) /\ HasCol(q, ColPatGrowth)
    /\ \A r \in {1, NRows(fy)} :
          IsNumber(Cell(fy, r, ColRevenueGrowth)) /\ IsNumber(Cell(fy, r, ColPatGrowth))
    /\ IsNumber(Cell(q, NRows(q), ColRevenueGrowth))
    /\ IsNumber(Cell(q, NRows(q), ColPatGrowth))

\* a result that calls the revenue trend 'Stable' only above 8
calculate_key_metrics_stable_above_8(fy, q) ==
    IF ~KeyMetricsReadable(fy, q) THEN KeyMetricsFallback
    ELSE
    LET fy2021_rev == Tenths(Cell(fy, 1, ColRevenueGrowth))
        fy2025_rev == Tenths(Cell(fy, NRows(fy), ColRevenueGrowth))
        fy2021_pat == Tenths(Cell(fy, 1, ColPatGrowth))
        fy2025_pat == Tenths(Cell(fy, NRows(fy), ColPatGrowth))
        revenue_cagr == KeyMetricsCagr(fy2021_rev, fy2025_rev)
        pat_cagr == KeyMetricsCagr(fy2021_pat, fy2025_pat)
        current_rev == Tenths(Cell(q, NRows(q), ColRevenueGrowth))
        current_pat == Tenths(Cell(q, NRows(q), ColPatGrowth))
        divergence == pat_cagr - revenue_cagr
    IN  [revenue_cagr |-> revenue_cagr, pat_cagr |-> pat_cagr,
         current_rev_growth |-> current_rev, current_pat_growth |-> current_pat,
         revenue_trend |-> IF current_rev <= 80 THEN "Decelerating" ELSE "Stable",
         profit_trend |-> IF divergence > 50 THEN "Margin Support" ELSE "Balanced",
         divergence_factor |-> divergence,
         nifty_current |-> 23500, pe_current |-> 250, pe_fair_range |-> <<10, 12>>]

calculate_key_metrics(fy, q) ==
    IF ~KeyMetricsReadable(fy, q) THEN KeyMetricsFallback
    ELSE
    LET fy2021_rev == Tenths(Cell(fy, 1, ColRevenueGrowth))
        fy2025_rev == Tenths(Cell(fy, NRows(fy), ColRevenueGrowth))
        fy2021_pat == Tenths(Cell(fy, 1, ColPatGrowth))
        fy2025_pat == Tenths(Cell(fy, NRows(fy), ColPatGrowth))
        revenue_cagr == KeyMetricsCagr(fy2021_rev, fy2025_rev)
        pat_cagr == KeyMetricsCagr(fy2021_pat, fy2025_pat)
        current_rev == Tenths(Cell(q, NRows(q), ColRevenueGrowth))
        current_pat == Tenths(Cell(q, NRows(q), ColPatGrowth))
        divergence == pat_cagr - revenue_cagr
    IN  [revenue_cagr |-> revenue_cagr, pat_cagr |-> pat_cagr,
         current_rev_growth |-> current_rev, current_pat_growth |-> current_pat,
         revenue_trend |-> IF current_rev < 80 THEN "Decelerating" ELSE "Stable",
         profit_trend |-> IF divergence > 50 THEN "Margin Support" ELSE "Balanced",
         divergence_factor |-> divergence,
         nifty_current |-> 23500, pe_current |-> 250, pe_fair_range |-> <<10, 12>>]

(***************************************************************************)
(* streamlit_app.py, Scenarios page: the Earnings CAGR metric              *)
(*   ((fy27_earnings / fy25_earnings) ** (1/2) - 1) * 100                  *)
(* The division raises ZeroDivisionError on a zero start; a negative       *)
(* ratio to the power 1/2 is a complex number (no error is raised).        *)
(***************************************************************************)
EarningsCagr(scenario_data) ==
    LET start == scenario_data.fy25_earnings
        end == scenario_data.fy27_earnings
    IN  IF start = 0 THEN [kind |-> "ZeroDivisionError", v |-> 0]
        ELSE IF (start > 0 /\ end < 0) \/ (start < 0 /\ end > 0)
        THEN [kind |-> "complex", v |-> 0]
        ELSE [kind |-> "float", v |-> RootMilli(2, Abs(end), Abs(start)) - 1000]

(***************************************************************************)
(* data.py: validate_data                                                  *)
(***************************************************************************)
ColWeight ==
    <<"W", "e", "i", "g", "h", "t", " ", "i", "n", " ", "N", "i", "f", "t", "y", " ", "(", "%", ")">>
ColFY25ProfitGrowth ==
    <<"F", "Y", "2", "5", " ", "P", "r", "o", "f", "i", "t", " ", "G", "r", "o", "w", "t", "h", " ", "(", "%", ")">>

\* the first check that fails, as the (success, message) pair returned; an
\* assert without a message gives an empty text, a KeyError names the key
validate_data(fy, q, s, d, scs) ==
    LET failed(msg) == [success |-> FALSE, message |-> msg]
        revenue == {Cell(fy, r, ColRevenueGrowth) : r \in 1..NRows(fy)}
    IN  IF NRows(fy) # 5
        THEN failed("Validation failed: Five-year data should have 5 rows")
        ELSE IF NRows(q) # 3
        THEN failed("Validation failed: Quarterly data should have 3 rows")
        ELSE IF NRows(s) # 10
        THEN failed("Validation failed: Sector data should have 10 sectors")
        ELSE IF NRows(d) # 6
        THEN failed("Validation failed: Downgrade data should have 6 data points")
        ELSE IF Cardinality(DOMAIN scs) # 3
        THEN failed("Validation failed: Should have 3 scenarios")
        ELSE IF ~HasCol(fy, ColRevenueGrowth) \/ ~HasCol(q, ColPatGrowth)
                \/ ~HasCol(s, ColWeight) \/ ~HasCol(d, ColFY25ProfitGrowth)
        THEN failed("Validation failed: ")
        ELSE IF \E c \in revenue : ~IsNumber(c)
        THEN failed("Data validation error: TypeError")
        ELSE IF \E c \in revenue : ~(Tenths(c) > -1000)
        THEN failed("Validation failed: Growth rates should be > -100%")
        ELSE IF \E c \in revenue : ~(Tenths(c) < 1000)
        THEN failed("Validation failed: Growth rates should be < 100%")
        ELSE IF \E n \in DOMAIN scs :
                   "fy25_earnings" \notin DOMAIN scs[n] \/ "fy25_pe" \notin DOMAIN scs[n]
        THEN failed("Validation failed: ")
        ELSE IF \E n \in DOMAIN scs : "probability" \notin DOMAIN scs[n]
        THEN failed("Data validation error: 'probability'")
        ELSE IF \E n \in DOMAIN scs : ~(scs[n].probability > 0)
        THEN failed("Validation failed: ")
        ELSE [success |-> TRUE, message |-> "All data validated successfully"]

(***************************************************************************)
(* data.py: load_all_data, get_data_summary                                *)
(***************************************************************************)
load_all_data(fy, q, s, d, scs) ==
    [five_year |-> fy, quarterly |-> q, sector |-> s, downgrades |-> d,
     scenarios |-> scs,
     nifty_levels |-> calculate_nifty_levels(scs),
     metrics |-> calculate_key_metrics(fy, q)]

ColSector ==
    <<"S", "e", "c", "t", "o", "r">>
ColProfitGrowthFY25 ==
    <<"P", "r", "o", "f", "i", "t", " ", "G", "r", "o", "w", "t", "h", " ", "F", "Y", "2", "5", " ", "(", "%", ")">>

RECURSIVE SumCells(_, _, _)
SumCells(tbl, name, r) ==
    IF r = 0 THEN 0 ELSE Cell(tbl, r, name).v + SumCells(tbl, name, r - 1)

\* Series.sum() of a column
ColumnSum(tbl, name) == SumCells(tbl, name, NRows(tbl))

\* Series.idxmax(): the first row holding the largest value
IdxMax(tbl, name) ==
    CHOOSE r \in 1..NRows(tbl) :
        /\ \A o \in 1..NRows(tbl) : Tenths(Cell(tbl, o, name)) <= Tenths(Cell(tbl, r, name))
        /\ \A o \in 1..(r - 1) : Tenths(Cell(tbl, o, name)) < Tenths(Cell(tbl, r, name))

\* Series.idxmin(): the first row holding the smallest value
IdxMin(tbl, name) ==
    CHOOSE r \in 1..NRows(tbl) :
        /\ \A o \in 1..NRows(tbl) : Tenths(Cell(tbl, o, name)) >= Tenths(Cell(tbl, r, name))
        /\ \A o \in 1..(r - 1) : Tenths(Cell(tbl, o, name)) > Tenths(Cell(tbl, r, name))

get_data_summary(fy, q, s, scs) ==
    [periods_analyzed |-> NRows(fy),
     quarters_analyzed |-> NRows(q),
     sectors_analyzed |-> NRows(s),
     scenarios_modeled |-> Cardinality(DOMAIN scs),
     latest_revenue_growth |-> Cell(q, NRows(q), ColRevenueGrowth).v,
     latest_pat_growth |-> Cell(q, NRows(q), ColPatGrowth).v,
     best_sector |-> Cell(s, IdxMax(s, ColProfitGrowthFY25), ColSector).s,
     worst_sector |-> Cell(s, IdxMin(s, ColProfitGrowthFY25), ColSector).s,
     total_weight_analyzed |-> ColumnSum(s, ColWeight),
     data_updated |-> "Feb 21, 2025"]

(***************************************************************************)
(* DataFrame.to_csv(index=False): a header line of the column names, one   *)
(* line per row, fields separated by commas, lines ended by "\n"; a field  *)
(* holding a comma, a quote or a line break is quoted and its quotes       *)
(* doubled; a float is written with its decimal digit ("7.0"), an int      *)
(* without one ("35")                                                      *)
(***************************************************************************)
DigitChar == <<"0", "1", "2", "3", "4", "5", "6", "7", "8", "9">>

RECURSIVE NatChars(_)
NatChars(n) ==
    IF n < 10 THEN <<DigitChar[n + 1]>> ELSE NatChars(n \div 10) \o <<DigitChar[(n % 10) + 1]>>

FormatInt(n) == (IF n < 0 THEN <<"-">> ELSE <<>>) \o NatChars(Abs(n))

FormatFloat(tenths) ==
    (IF tenths < 0 THEN <<"-">> ELSE <<>>)
    \o NatChars(Abs(tenths) \div 10) \o <<".">> \o NatChars(Abs(tenths) % 10)

FormatCell(cell) ==
    IF cell.t = "str" THEN cell.s
    ELSE IF cell.t = "int" THEN FormatInt(cell.v)
    ELSE FormatFloat(cell.v)

NeedsQuote(field) ==
    \E i \in 1..Len(field) : field[i] \in {",", "\"", "\n", "\r"}

RECURSIVE DoubleQuotes(_)
DoubleQuotes(field) ==
    IF field = <<>> THEN <<>>
    ELSE (IF Head(field) = "\"" THEN <<"\"", "\"">> ELSE <<Head(field)>>)
         \o DoubleQuotes(Tail(field))

\* a writer that never quotes
CsvFieldUnquoted(field) == field

CsvField(field) ==
    IF NeedsQuote(field) THEN <<"\"">> \o DoubleQuotes(field) \o <<"\"">> ELSE field

RECURSIVE CsvJoin(_)
CsvJoin(fields) ==
    IF Len(fields) = 0 THEN <<>>
    ELSE IF Len(fields) = 1 THEN CsvField(fields[1])
    ELSE CsvField(fields[1]) \o <<",">> \o CsvJoin(Tail(fields))

CsvLine(fields) == CsvJoin(fields) \o <<"\n">>

RECURSIVE CsvRows(_)
CsvRows(rows) ==
    IF rows = <<>> THEN <<>>
    ELSE CsvLine([i \in 1..Len(Head(rows)) |-> FormatCell(Head(rows)[i])])
         \o CsvRows(Tail(rows))

to_csv(tbl) == CsvLine(tbl.cols) \o CsvRows(tbl.rows)

(***************************************************************************)
(* data.py: export_to_csv                                                  *)
(***************************************************************************)
ExportKeys == {"five_year", "quarterly", "sector", "downgrades"}

data_map(fy, q, s, d) ==
    [five_year |-> fy, quarterly |-> q, sector |-> s, downgrades |-> d]

\* an export that keeps to_csv's default index=True: a leading index column
\* with an empty header
WithIndex(tbl) ==
    [cols |-> <<<<>>>> \o tbl.cols,
     rows |-> [r \in 1..NRows(tbl) |-> <<IntCell(r - 1)>> \o tbl.rows[r]]]

export_to_csv_with_index(data_type, fy, q, s, d) ==
    IF data_type \in DOMAIN data_map(fy, q, s, d)
    THEN to_csv(WithIndex(data_map(fy, q, s, d)[data_type]))
    ELSE <<>>

export_to_csv(data_type, fy, q, s, d) ==
    IF data_type \in DOMAIN data_map(fy, q, s, d)
    THEN to_csv(data_map(fy, q, s, d)[data_type])
    ELSE <<>>

(***************************************************************************)
(* config.py as the app sees it: the names the module defines, the keys of *)
(* its dictionaries, and PAGES.  Page labels are written with the code     *)
(* point of their emoji.                                                   *)
(***************************************************************************)
PAGES ==
    [kind |-> "dict",
     keys |-> <<"U+1F3E0 Overview", "U+1F4C8 5-Year Trend", "U+1F4CA Quarterly Deep-Dive",
                "U+1F3E6 Sector Analysis", "U+1F4C9 Earnings Downgrades",
                "U+1F3AF Scenarios", "U+1F4CB Data Explorer">>]

COLORS ==
    {"primary_dark", "primary_mid", "primary_light", "accent_gold",
     "accent_red", "accent_green", "accent_orange", "white",
     "light_gray", "medium_gray", "chart_blue"}

config_py ==
    [names |->
        {"st", "Dict", "COLORS", "configure_page",
         "apply_custom_css", "STREAMLIT_THEME", "PAGES", "PLOTLY_CONFIG",
         "CHART_HEIGHT", "CHART_HEIGHT_SMALL", "BASE_EPS_FY24", "CURRENT_NIFTY",
         "SCENARIO_WEIGHTS", "BRAND_NAME", "AUTHOR", "EXPERIENCE",
         "LOCATION", "DATA_SOURCES"},
     COLORS |-> COLORS, PAGES |-> PAGES, MESSAGES |-> {}, FONTS |-> {}]

\* from config import (...) of streamlit_app.py; the nested import of the
\* data-source names has its own except ImportError
AppConfigImports ==
    {"COLORS", "AUTHOR", "BRAND_NAME", "EXPERIENCE", "LOCATION",
     "CHART_HEIGHT", "CHART_HEIGHT_SMALL", "PAGES", "MESSAGES"}

\* from config import COLORS, FONTS of styles.py
StylesConfigImports == {"COLORS", "FONTS"}

\* the COLORS keys and the FONTS key get_custom_css reads
CssColors ==
    {"dark_blue", "light_blue", "accent_gold", "accent_green", "accent_red",
     "text_dark", "text_muted", "bg_light", "bg_white", "border_color"}
CssFonts == {"primary"}

\* the MESSAGES keys initialize_page and the main header read
HeaderMessages == {"header_title", "header_subtitle"}

\* PAGES[k] for an integer k: a dict keyed by labels has no integer key, a
\* list has the indices below its length
Subscript(pages, k) ==
    IF pages.kind = "dict" THEN [ok |-> FALSE, v |-> "", error |-> "KeyError"]
    ELSE IF k >= 0 /\ k < Len(pages.keys) THEN [ok |-> TRUE, v |-> pages.keys[k + 1], error |-> ""]
    ELSE [ok |-> FALSE, v |-> "", error |-> "IndexError"]

\* the options st.sidebar.radio offers for PAGES: the entries of a list, the
\* keys of a dict
RadioOptions(pages) == pages.keys

(***************************************************************************)
(* streamlit_app.py: display_styled_dataframe                              *)
(***************************************************************************)
\* Styler.background_gradient raises on a subset column the table lacks
\* (KeyError), or for a reason of the environment
StylingRaises(df, columns_to_style, styling) ==
    \/ styling = "raises"
    \/ \E i \in 1..Len(columns_to_style) : ~HasCol(df, columns_to_style[i])

display_styled_dataframe_warning_only(df, columns_to_style, MATPLOTLIB_AVAILABLE, styling) ==
    IF MATPLOTLIB_AVAILABLE /\ columns_to_style # <<>>
    THEN IF StylingRaises(df, columns_to_style, styling)
         THEN <<"warning: styling failed">>
         ELSE <<"dataframe: styled">>
    ELSE <<"dataframe">>

display_styled_dataframe(df, columns_to_style, MATPLOTLIB_AVAILABLE, styling) ==
    IF MATPLOTLIB_AVAILABLE /\ columns_to_style # <<>>
    THEN IF StylingRaises(df, columns_to_style, styling)
         THEN <<"warning: styling failed", "dataframe">>
         ELSE <<"dataframe: styled">>
    ELSE <<"dataframe">>

\* column names the pages read
ColFiscalYear ==
    <<"F", "i", "s", "c", "a", "l", " ", "Y", "e", "a", "r">>
ColEbitdaGrowth ==
    <<"E", "B", "I", "T", "D", "A", " ", "G", "r", "o", "w", "t", "h", " ", "(", "%", ")">>
ColEbitdaMargin ==
    <<"E", "B", "I", "T", "D", "A", " ", "M", "a", "r", "g", "i", "n", " ", "(", "%", ")">>
ColPatMargin ==
    <<"P", "A", "T", " ", "M", "a", "r", "g", "i", "n", " ", "(", "%", ")">>
ColQuarter ==
    <<"Q", "u", "a", "r", "t", "e", "r">>
ColRevenueGrowthFY25 ==
    <<"R", "e", "v", "e", "n", "u", "e", " ", "G", "r", "o", "w", "t", "h", " ", "F", "Y", "2", "5", " ", "(", "%", ")">>
ColPeriod ==
    <<"P", "e", "r", "i", "o", "d">>

(***************************************************************************)
(* State                                                                   *)
(*   five_year, quarterly, sector, downgrades, scenarios                   *)
(*       what the bodies of get_five_year_data, get_quarterly_data,        *)
(*       get_sector_data, get_downgrade_data and get_scenarios return      *)
(*   cache   the st.cache_data entries of the data module: cached          *)
(*           function name -> the value stored for it                      *)
(*   call    the last call made and what it returned                       *)
(*   env     what the app finds around it: the config module, whether      *)
(*           matplotlib can be imported, whether table styling works       *)
(*   session per browser session: the widget values and what the last      *)
(*           run of the script rendered                                    *)
(***************************************************************************)
VARIABLES five_year, quarterly, sector, downgrades, scenarios, cache, call,
          env, session

sources == <<five_year, quarterly, sector, downgrades, scenarios>>
app == <<env, session>>
vars == <<five_year, quarterly, sector, downgrades, scenarios, cache, call,
          env, session>>

NoCall == [fn |-> "none", arg |-> "", val |-> <<>>]
Imported == call.fn # "none"

\* a table function whose body raises (pd.DataFrame on columns of unequal
\* length raises ValueError) has no table to return
Raising(error) == [raises |-> error]
Raises(tbl) == DOMAIN tbl = {"raises"}

\* @st.cache_data: a stored entry is kept, a missing one is filled
Cached(c, name, value) == IF name \in DOMAIN c THEN c ELSE (name :> value) @@ c

\* a call that raises stores nothing
TableCached(c, name, tbl) == IF Raises(tbl) THEN c ELSE Cached(c, name, tbl)

FiveYearCached(c) == TableCached(c, "get_five_year_data", five_year)
QuarterlyCached(c) == TableCached(c, "get_quarterly_data", quarterly)
SectorCached(c) == TableCached(c, "get_sector_data", sector)
DowngradeCached(c) == TableCached(c, "get_downgrade_data", downgrades)
ScenariosCached(c) == Cached(c, "get_scenarios", scenarios)

TableFunctions ==
    <<"get_five_year_data", "get_quarterly_data", "get_sector_data", "get_downgrade_data">>

\* Body applied to a value that is computed once
Then(value, Body(_)) == CHOOSE result \in {Body(v) : v \in {value}} : TRUE

\* the next table read, unless the read before it raised
NextTableCached(c, i, Read(_)) == IF TableFunctions[i] \in DOMAIN c THEN Read(c) ELSE c

\* the four tables, in the order validate_data and load_all_data read them;
\* the first call that raises ends the reads
TablesCached(c) ==
    Then(Then(Then(FiveYearCached(c),
        LAMBDA c1 : NextTableCached(c1, 1, QuarterlyCached)),
        LAMBDA c2 : NextTableCached(c2, 2, SectorCached)),
        LAMBDA c3 : NextTableCached(c3, 3, DowngradeCached))

TablesRead(c) == \A i \in 1..4 : TableFunctions[i] \in DOMAIN c

NiftyLevelsCachedInPlace(c, scs) ==
    Cached([n \in DOMAIN c |->
               IF n = "get_scenarios"
               THEN [k \in DOMAIN scs |-> [scs[k] EXCEPT !.probability = 0]]
               ELSE c[n]],
           "calculate_nifty_levels", calculate_nifty_levels(scs))

NiftyLevelsCached(c, scs) ==
    Cached(c, "calculate_nifty_levels", calculate_nifty_levels(scs))

\* calculate_key_metrics reads its two tables before its try block
KeyMetricsCached(c) ==
    IF "calculate_key_metrics" \in DOMAIN c THEN c
    ELSE Then(Then(FiveYearCached(c),
             LAMBDA c1 : NextTableCached(c1, 1, QuarterlyCached)),
             LAMBDA c2 : IF TableFunctions[2] \notin DOMAIN c2 THEN c2
                         ELSE Cached(c2, "calculate_key_metrics",
                                     calculate_key_metrics(c2["get_five_year_data"],
                                                           c2["get_quarterly_data"])))

LoadAllReturnedOneLevel(c) ==
    Cached(c, "load_all_data",
           [five_year |-> c["get_five_year_data"],
            quarterly |-> c["get_quarterly_data"],
            sector |-> c["get_sector_data"],
            downgrades |-> c["get_downgrade_data"],
            scenarios |-> c["get_scenarios"],
            nifty_levels |->
                [n \in DOMAIN c["calculate_nifty_levels"] |->
                    c["calculate_nifty_levels"][CHOOSE k \in DOMAIN c["calculate_nifty_levels"] : TRUE]],
            metrics |-> c["calculate_key_metrics"]])

\* the dict load_all_data returns, from the cache its calls have filled
LoadAllReturned(c) ==
    Cached(c, "load_all_data",
           [five_year |-> c["get_five_year_data"],
            quarterly |-> c["get_quarterly_data"],
            sector |-> c["get_sector_data"],
            downgrades |-> c["get_downgrade_data"],
            scenarios |-> c["get_scenarios"],
            nifty_levels |-> c["calculate_nifty_levels"],
            metrics |-> c["calculate_key_metrics"]])

\* load_all_data: get_scenarios(), then the entries of the returned dict in
\* their order; an exception in one of the calls leaves load_all_data itself
\* without an entry
LoadAllCached(c) ==
    IF "load_all_data" \in DOMAIN c THEN c
    ELSE Then(TablesCached(ScenariosCached(c)),
              LAMBDA c2 : IF ~TablesRead(c2) THEN c2
                          ELSE Then(KeyMetricsCached(
                                        NiftyLevelsCached(c2, c2["get_scenarios"])),
                                    LoadAllReturned))

\* validate_data reads the four tables, then the scenarios
ValidateCached(c) ==
    Then(TablesCached(c), LAMBDA c1 : IF TablesRead(c1) THEN ScenariosCached(c1) ELSE c1)

ValidateResultLenient(c) ==
    IF ~TablesRead(c)
    THEN [success |-> TRUE, message |-> "All data validated successfully"]
    ELSE validate_data(c["get_five_year_data"], c["get_quarterly_data"],
                       c["get_sector_data"], c["get_downgrade_data"], c["get_scenarios"])

\* what validate_data returns after these reads: an exception of a read is
\* caught by its except Exception
ValidateResult(c) ==
    IF ~TablesRead(c)
    THEN [success |-> FALSE, message |-> "Data validation error: ValueError"]
    ELSE validate_data(c["get_five_year_data"], c["get_quarterly_data"],
                       c["get_sector_data"], c["get_downgrade_data"], c["get_scenarios"])

(***************************************************************************)
(* Initial state: the built-in data, nothing imported or cached yet, the   *)
(* repository's config module, no browser session                          *)
(***************************************************************************)
Init ==
    /\ five_year = get_five_year_data
    /\ quarterly = get_quarterly_data
    /\ sector = get_sector_data
    /\ downgrades = get_downgrade_data
    /\ scenarios = get_scenarios
    /\ cache = <<>>
    /\ call = NoCall
    /\ env = [config |-> config_py, matplotlib |-> TRUE, styling |-> "ok"]
    /\ session = <<>>

(***************************************************************************)
(* Operations                                                              *)
(***************************************************************************)
\* import data: initialize_data() validates and, on success, pre-loads
initialize_data ==
    /\ ~Imported
    /\ LET c1 == ValidateCached(cache)
           r == ValidateResult(c1)
       IN  /\ cache' = IF r.success THEN LoadAllCached(c1) ELSE c1
           /\ call' = [fn |-> "initialize_data", arg |-> "", val |-> r]
    /\ UNCHANGED <<sources, app>>

CallValidateData ==
    /\ Imported
    /\ cache' = ValidateCached(cache)
    /\ call' = [fn |-> "validate_data", arg |-> "", val |-> ValidateResult(cache')]
    /\ UNCHANGED <<sources, app>>

CallLoadAllData ==
    /\ Imported
    /\ cache' = LoadAllCached(cache)
    /\ call' = [fn |-> "load_all_data", arg |-> "", val |-> cache'["load_all_data"]]
    /\ UNCHANGED <<sources, app>>

CallGetScenarios ==
    /\ Imported
    /\ cache' = ScenariosCached(cache)
    /\ call' = [fn |-> "get_scenarios", arg |-> "", val |-> cache'["get_scenarios"]]
    /\ UNCHANGED <<sources, app>>

\* calculate_nifty_levels(get_scenarios())
CallCalculateNiftyLevels ==
    /\ Imported
    /\ LET c1 == ScenariosCached(cache)
       IN  cache' = NiftyLevelsCached(c1, c1["get_scenarios"])
    /\ call' = [fn |-> "calculate_nifty_levels", arg |-> "",
                val |-> cache'["calculate_nifty_levels"]]
    /\ UNCHANGED <<sources, app>>

CallCalculateKeyMetrics ==
    /\ Imported
    /\ cache' = KeyMetricsCached(cache)
    /\ call' = [fn |-> "calculate_key_metrics", arg |-> "",
                val |-> cache'["calculate_key_metrics"]]
    /\ UNCHANGED <<sources, app>>

CallGetDataSummary ==
    /\ Imported
    /\ cache' = ScenariosCached(SectorCached(QuarterlyCached(FiveYearCached(cache))))
    /\ call' = [fn |-> "get_data_summary", arg |-> "",
                val |-> get_data_summary(cache'["get_five_year_data"],
                                         cache'["get_quarterly_data"],
                                         cache'["get_sector_data"],
                                         cache'["get_scenarios"])]
    /\ UNCHANGED <<sources, app>>

\* the data_type values tried: the four keys and two that are not keys
ExportArgs == ExportKeys \cup {"scenarios", ""}

CallExportToCsv ==
    /\ Imported
    /\ \E data_type \in ExportArgs :
          /\ cache' = TablesCached(cache)
          /\ call' = [fn |-> "export_to_csv", arg |-> data_type,
                      val |-> export_to_csv(data_type,
                                            cache'["get_five_year_data"],
                                            cache'["get_quarterly_data"],
                                            cache'["get_sector_data"],
                                            cache'["get_downgrade_data"])]
    /\ UNCHANGED <<sources, app>>

\* Scenarios page: the Earnings CAGR metric of the selected scenario of the
\* loaded data (scenarios = data['scenarios'])
RenderEarningsCagr ==
    /\ call.fn = "load_all_data"
    /\ \E selected_scenario \in DOMAIN call.val.scenarios :
          call' = [fn |-> "earnings_cagr", arg |-> selected_scenario,
                   val |-> EarningsCagr(call.val.scenarios[selected_scenario])]
    /\ UNCHANGED <<sources, cache, app>>

\* the denominator of the valuation gap of the market alert
FairRangeSum(metrics) == metrics.pe_fair_range[1] + metrics.pe_fair_range[2]

\* f"{x:.0f}" of x = n / d, d > 0: the nearest integer, a tie to the even one
RoundHalfEven(n, d) ==
    LET q == n \div d
        r == n - q * d
    IN  IF 2 * r < d THEN q
        ELSE IF 2 * r > d THEN q + 1
        ELSE IF q % 2 = 0 THEN q ELSE q + 1

\* the valuation gap of the market alert, as its text shows it:
\*   ((pe_current / (low + high) / 2) - 1) * 100, format .0f
\* pe_current is in tenths; / associates to the left, so pe_current is
\* divided by the sum of the range and then by 2
ValuationGap(metrics) ==
    IF FairRangeSum(metrics) = 0 THEN [kind |-> "ZeroDivisionError", v |-> 0]
    ELSE [kind |-> "float",
          v |-> RoundHalfEven(100 * (metrics.pe_current - 20 * FairRangeSum(metrics)),
                              20 * FairRangeSum(metrics))]

\* the sidebar market alert of a run, on the loaded data
RenderValuationGap ==
    /\ call.fn = "load_all_data"
    /\ call' = [fn |-> "valuation_gap", arg |-> "", val |-> ValuationGap(call.val.metrics)]
    /\ UNCHANGED <<sources, cache, app>>

\* floor(1000 * (a / den) ** (1/n)) for an exact decimal a >= 0, by
\* bisection on r^n * den * 10^a.e <= a.m * 1000^n
DecRootFits(r, n, a, den) ==
    BigLeq(BigShift10(BigMulSmall(BigPow(r, n), den), a.e), BigMul(a.m, BigPow(1000, n)))

RECURSIVE DecRootBisect(_, _, _, _, _)
DecRootBisect(lo, hi, n, a, den) ==
    IF hi - lo <= 1 THEN lo
    ELSE LET mid == (lo + hi) \div 2
         IN  IF DecRootFits(mid, n, a, den)
             THEN DecRootBisect(mid, hi, n, a, den)
             ELSE DecRootBisect(lo, mid, n, a, den)

\* the level the Scenarios page measures the return from
StartingNifty == 23500

\* Scenarios page, Nifty Return:
\*   ending_nifty = nifty_path[2] * 1000
\*   return_pa = ((ending_nifty / 23500) ** (1/3) - 1) * 100
\* in tenths of a percent; a negative ratio to the power 1/3 is a complex
\* number
NiftyReturn(nifty_path) ==
    LET ending_nifty == DecMul(nifty_path[3], DecOf(1000, 0))
    IN  IF ending_nifty.s < 0 THEN [kind |-> "complex", v |-> 0]
        ELSE [kind |-> "float",
              v |-> DecRootBisect(0, 100000, 3, ending_nifty, StartingNifty) - 1000]

\* the Nifty Return metric of the Scenarios page for the selected scenario
RenderNiftyReturn ==
    /\ call.fn = "load_all_data"
    /\ \E selected_scenario \in DOMAIN call.val.nifty_levels :
          call' = [fn |-> "nifty_return", arg |-> selected_scenario,
                   val |-> NiftyReturn(call.val.nifty_levels[selected_scenario])]
    /\ UNCHANGED <<sources, cache, app>>

\* f"{level:.0f}" of an exact decimal below 100: the nearest integer, a tie
\* to the even one, with the sign of the value
FormatFixed0(level) ==
    LET mag == [level EXCEPT !.s = 1]
        q == DecRootBisect(0, 100000, 1, mag, 1) \div 1000
        half == DecOf(10 * q + 5, 1)
        nearest == IF ~DecLeq(half, mag) THEN q
                   ELSE IF ~DecLeq(mag, half) THEN q + 1
                   ELSE IF q % 2 = 0 THEN q ELSE q + 1
    IN  (IF level.s < 0 THEN <<"-">> ELSE <<>>) \o NatChars(nearest)

\* Scenarios page, the text of the Nifty Target chart:
\*   text=[f"{level:.0f}K" for level in nifty_path]
LevelLabels(nifty_path) ==
    [i \in DOMAIN nifty_path |-> FormatFixed0(nifty_path[i]) \o <<"K">>]

\* the Nifty Target chart of the Scenarios page for the selected scenario
RenderLevelLabels ==
    /\ call.fn = "load_all_data"
    /\ \E selected_scenario \in DOMAIN call.val.nifty_levels :
          call' = [fn |-> "level_labels", arg |-> selected_scenario,
                   val |-> LevelLabels(call.val.nifty_levels[selected_scenario])]
    /\ UNCHANGED <<sources, cache, app>>

\* the rows of a table whose 'Profit Growth FY25 (%)' passes a test, in the
\* table's order: sector[sector['Profit Growth FY25 (%)'] ...]
ProfitGrowthOf(tbl, row) == Tenths(row[ColIndex(tbl, ColProfitGrowthFY25)])

\* sector[sector['Profit Growth FY25 (%)'] < -20]
crisis_sectors(sector_table) ==
    SelectSeq(sector_table.rows, LAMBDA row : ProfitGrowthOf(sector_table, row) < -200)

\* a selection that leaves out the sectors between 25 and 26
strong_sectors_above_26(sector_table) ==
    SelectSeq(sector_table.rows, LAMBDA row : ProfitGrowthOf(sector_table, row) > 260)

\* sector[sector['Profit Growth FY25 (%)'] > 25]
strong_sectors(sector_table) ==
    SelectSeq(sector_table.rows, LAMBDA row : ProfitGrowthOf(sector_table, row) > 250)

\* Sector Analysis page, Risk Assessment: one warning box for each crisis
\* sector, then one success box for each strong sector, each with the
\* sector's name
RiskAssessment(sector_table) ==
    LET name(row) == row[ColIndex(sector_table, ColSector)].s
        crisis == crisis_sectors(sector_table)
        strong == strong_sectors(sector_table)
    IN  [warning |-> [i \in DOMAIN crisis |-> name(crisis[i])],
         success |-> [i \in DOMAIN strong |-> name(strong[i])]]

\* the Risk Assessment column of the Sector Analysis page, on the loaded data
RenderRiskAssessment ==
    /\ call.fn = "load_all_data"
    /\ call' = [fn |-> "risk_assessment", arg |-> "",
                val |-> RiskAssessment(call.val.sector)]
    /\ UNCHANGED <<sources, cache, app>>

\* the time-to-live of one cache entry runs out
CacheExpire ==
    /\ \E name \in DOMAIN cache :
          cache' = [n \in DOMAIN cache \ {name} |-> cache[n]]
    /\ UNCHANGED <<sources, call, app>>

(***************************************************************************)
(* streamlit_app.py: one run of the script.  A run is a record: how far it *)
(* got (running, done, stopped by st.stop(), crashed by an exception no    *)
(* handler caught), the elements it has put on the page in their order,    *)
(* the cache, the loaded data, the selected page and the branch of the     *)
(* page chain taken.                                                       *)
(***************************************************************************)
RangeOf(seq) == {seq[i] : i \in 1..Len(seq)}

\* the scenario names in the order get_scenarios lists them
ScenarioNames ==
    <<<<"B", "a", "s", "e", " ", "C", "a", "s", "e", " ", "(", "5", "0", "%", ")">>,
      <<"B", "e", "a", "r", " ", "C", "a", "s", "e", " ", "(", "2", "5", "%", ")">>,
      <<"B", "u", "l", "l", " ", "C", "a", "s", "e", " ", "(", "2", "5", "%", ")">>>>

DefaultWidgets == [page |-> "", selected_scenario |-> <<>>, data_option |-> "All Data"]

\* initialize_data(), run by the first import of the data module
InitializeDataCached(c) ==
    Then(ValidateCached(c),
         LAMBDA c1 : IF ValidateResult(c1).success THEN LoadAllCached(c1) ELSE c1)

Begin(c, widgets) ==
    [status |-> "running", error |-> "", shown |-> <<>>, cache |-> c, data |-> <<>>,
     page |-> "", branch |-> -1, widgets |-> widgets]

Show(r, elements) == [r EXCEPT !.shown = @ \o elements]
Halt(r, status, error) == [r EXCEPT !.status = status, !.error = error]

\* st.error(...) followed by st.stop()
ErrorAndStop(r, banner, error) == Halt(Show(r, <<banner>>), "stopped", error)

\* the config and styles imports, each in try / except ImportError
ImportModules(r, cfg) ==
    IF r.status # "running" THEN r
    ELSE IF ~(AppConfigImports \subseteq cfg.names)
    THEN ErrorAndStop(r, "error: importing config module", "ImportError")
    ELSE IF ~(StylesConfigImports \subseteq cfg.names)
    THEN ErrorAndStop(r, "error: importing styles module", "ImportError")
    ELSE r

\* initialize_page() (cached) and apply_custom_css()
InitializePage(r, cfg) ==
    IF r.status # "running" THEN r
    ELSE IF "initialize_page" \notin DOMAIN r.cache /\ "header_title" \notin cfg.MESSAGES
    THEN Halt(r, "crashed", "KeyError")
    ELSE IF ~(CssColors \subseteq cfg.COLORS /\ CssFonts \subseteq cfg.FONTS)
    THEN Halt([r EXCEPT !.cache = Cached(@, "initialize_page", TRUE)], "crashed", "KeyError")
    ELSE [r EXCEPT !.cache = Cached(@, "initialize_page", TRUE)]

\* the data loading block: validate_data(), a warning when it fails, then
\* load_all_data(); any exception is reported and the run stopped
Validated(r) ==
    Then(ValidateCached(r.cache),
         LAMBDA c1 : IF ValidateResult(c1).success THEN [r EXCEPT !.cache = c1]
                     ELSE Show([r EXCEPT !.cache = c1], <<"warning: data validation">>))

LoadedUncaught(r) ==
    Then(LoadAllCached(r.cache),
         LAMBDA c2 : IF "load_all_data" \notin DOMAIN c2
                     THEN Halt([r EXCEPT !.cache = c2], "crashed", "ValueError")
                     ELSE [r EXCEPT !.cache = c2, !.data = c2["load_all_data"]])

Loaded(r) ==
    Then(LoadAllCached(r.cache),
         LAMBDA c2 : IF "load_all_data" \notin DOMAIN c2
                     THEN ErrorAndStop([r EXCEPT !.cache = c2],
                                       "error: failed to load data", "ValueError")
                     ELSE [r EXCEPT !.cache = c2, !.data = c2["load_all_data"]])

LoadData(r) == IF r.status # "running" THEN r ELSE Then(Validated(r), Loaded)

\* the navigation radio, the sidebar metrics and the market alert
Sidebar(r, cfg) ==
    IF r.status # "running" THEN r
    ELSE LET options == RadioOptions(cfg.PAGES)
             page == IF r.widgets.page \in RangeOf(options) THEN r.widgets.page
                     ELSE options[1]
             shown == Show([r EXCEPT !.page = page],
                           <<"sidebar: navigation", "sidebar: metrics">>)
         IN  IF FairRangeSum(r.data.metrics) = 0
             THEN Halt(shown, "crashed", "ZeroDivisionError")
             ELSE Show(shown, <<"sidebar: alert">>)

\* render_main_title and the caption under it
Header(r, cfg) ==
    IF r.status # "running" THEN r
    ELSE IF ~(HeaderMessages \subseteq cfg.MESSAGES) \/ "text_muted" \notin cfg.COLORS
    THEN Halt(r, "crashed", "KeyError")
    ELSE Show(r, <<"title">>)

\* the last index the page chain compares with: elif page == PAGES[7]
LastBranch == 7

\* if page == PAGES[0] ... elif page == PAGES[7]: the conditions are
\* evaluated in order up to the first that holds; a subscript that raises
\* ends the run
RECURSIVE PageChain(_, _, _)
PageChain(pages, page, k) ==
    IF k > LastBranch THEN [branch |-> -1, error |-> ""]
    ELSE LET entry == Subscript(pages, k)
         IN  IF ~entry.ok THEN [branch |-> -1, error |-> entry.error]
             ELSE IF page = entry.v THEN [branch |-> k, error |-> ""]
             ELSE PageChain(pages, page, k + 1)

\* a part of a page body: the elements it shows, or the exception of one of
\* its reads
Part(ok, error, elements) ==
    IF ok THEN [ok |-> TRUE, error |-> "", shown |-> elements]
    ELSE [ok |-> FALSE, error |-> error, shown |-> <<>>]

HasCols(tbl, names) == \A name \in names : HasCol(tbl, name)

\* f"{scenarios[name]['fy25_earnings']:.1f}"
FormatsEarnings(scs, name) ==
    /\ name \in DOMAIN scs
    /\ "fy25_earnings" \in DOMAIN scs[name]

\* the columns the 5-year and quarterly tables are styled on
GrowthColumns == <<ColRevenueGrowth, ColEbitdaGrowth, ColPatGrowth>>

OverviewPage(data, cfg) ==
    <<Part(TRUE, "", <<"page: overview">>),
      Part(HasCols(data.five_year, {ColFiscalYear, ColRevenueGrowth, ColPatGrowth})
             /\ {"chart_blue", "accent_red"} \subseteq cfg.COLORS,
           "KeyError", <<"chart: 5-year performance">>),
      Part(\A i \in 1..3 : FormatsEarnings(data.scenarios, ScenarioNames[i]),
           "KeyError", <<"scenario framework">>)>>

FiveYearPage(data, cfg, MATPLOTLIB_AVAILABLE, styling) ==
    <<Part(TRUE, "", <<"page: 5-year trend">>
                     \o display_styled_dataframe(data.five_year, GrowthColumns,
                                                 MATPLOTLIB_AVAILABLE, styling)),
      Part(HasCols(data.five_year, {ColFiscalYear} \cup RangeOf(GrowthColumns))
             /\ {"chart_blue", "accent_green", "accent_red"} \subseteq cfg.COLORS,
           "KeyError", <<"chart: growth comparison">>),
      Part(HasCols(data.five_year, {ColFiscalYear, ColEbitdaMargin, ColPatMargin}),
           "KeyError", <<"chart: margin trends", "key insights">>)>>

QuarterlyPage(data, cfg, MATPLOTLIB_AVAILABLE, styling) ==
    <<Part(TRUE, "", <<"page: quarterly deep-dive">>
                     \o display_styled_dataframe(data.quarterly, GrowthColumns,
                                                 MATPLOTLIB_AVAILABLE, styling)),
      Part(HasCols(data.quarterly, {ColQuarter} \cup RangeOf(GrowthColumns))
             /\ {"chart_blue", "accent_green", "accent_red"} \subseteq cfg.COLORS,
           "KeyError", <<"chart: quarterly growth">>),
      Part(NRows(data.quarterly) >= 1, "IndexError", <<"quarter summary">>)>>

SectorPage(data, MATPLOTLIB_AVAILABLE, styling) ==
    <<Part(TRUE, "", <<"page: sector analysis">>
                     \o display_styled_dataframe(data.sector, <<ColProfitGrowthFY25>>,
                                                 MATPLOTLIB_AVAILABLE, styling)),
      Part(HasCols(data.sector, {ColRevenueGrowthFY25, ColProfitGrowthFY25, ColWeight, ColSector}),
           "ValueError", <<"chart: sector positioning", "chart: sector weights",
                           "risk assessment">>)>>

DowngradesPage(data, cfg, MATPLOTLIB_AVAILABLE, styling) ==
    <<Part(TRUE, "", <<"page: earnings downgrades">>
                     \o display_styled_dataframe(data.downgrades, <<ColFY25ProfitGrowth>>,
                                                 MATPLOTLIB_AVAILABLE, styling)),
      Part(HasCols(data.downgrades, {ColPeriod, ColFY25ProfitGrowth})
             /\ "accent_red" \in cfg.COLORS,
           "KeyError", <<"chart: estimate revision", "downgrade catalysts">>)>>

\* the scenario the radio of the Scenarios page returns: the chosen one, or
\* the first key when nothing valid is chosen
ScenarioOptions(scs) == SelectSeq(ScenarioNames, LAMBDA name : name \in DOMAIN scs)

SelectedScenario(scs, widgets) ==
    IF widgets.selected_scenario \in DOMAIN scs THEN widgets.selected_scenario
    ELSE ScenarioOptions(scs)[1]

ScenariosPage(data, widgets) ==
    LET selected_scenario == SelectedScenario(data.scenarios, widgets)
        scenario_data == data.scenarios[selected_scenario]
        reads(keys) == keys \subseteq DOMAIN scenario_data
    IN  <<Part(TRUE, "", <<"page: scenarios", "radio: scenario">>),
          Part(selected_scenario \in DOMAIN data.nifty_levels, "KeyError", <<>>),
          Part(reads({"description"}), "KeyError", <<"assumption">>),
          Part(reads({"fy25_earnings", "fy27_earnings"}), "KeyError", <<>>),
          Part(EarningsCagr(scenario_data).kind # "ZeroDivisionError",
               "ZeroDivisionError", <<"metric: earnings cagr">>),
          Part(Len(data.nifty_levels[selected_scenario]) >= 3, "IndexError",
               <<"metric: nifty return">>),
          Part(reads({"probability"}), "KeyError",
               <<"metric: probability">>),
          Part(reads({"fy26_earnings", "color"}), "KeyError",
               <<"chart: earnings path", "chart: nifty target">>)>>

\* the datasets the Data Explorer shows and offers as CSV for an option
DataOptions ==
    <<"All Data", "5-Year Trend", "Quarterly Trends", "Sector Performance",
      "Earnings Downgrades">>

DatasetsOf(data_option) ==
    IF data_option = "All Data" THEN <<"five_year", "quarterly", "sector", "downgrades">>
    ELSE IF data_option = "5-Year Trend" THEN <<"five_year">>
    ELSE IF data_option = "Quarterly Trends" THEN <<"quarterly">>
    ELSE IF data_option = "Sector Performance" THEN <<"sector">>
    ELSE IF data_option = "Earnings Downgrades" THEN <<"downgrades">>
    ELSE <<>>

\* the file each download button offers: data[...].to_csv(index=False)
DownloadFile ==
    [five_year |-> "download: 5_year_nifty_data.csv",
     quarterly |-> "download: quarterly_fy25_data.csv",
     sector |-> "download: sector_analysis.csv",
     downgrades |-> "download: earnings_downgrades.csv"]

DataExplorerPage(data, widgets) ==
    LET sets == DatasetsOf(widgets.data_option)
    IN  <<Part(TRUE, "", <<"page: data explorer", "selectbox: dataset">>)>>
        \o [i \in 1..Len(sets) |->
              Part(~Raises(data[sets[i]]), "AttributeError",
                   <<"dataframe", DownloadFile[sets[i]]>>)]
        \o (IF widgets.data_option = "All Data"
            THEN <<Part(TRUE, "", <<"data summary">>)>> ELSE <<>>)

DataSourcesPage == <<Part(TRUE, "", <<"page: data sources">>)>>

PageBody(branch, data, cfg, widgets, MATPLOTLIB_AVAILABLE, styling) ==
    CASE branch = 0 -> OverviewPage(data, cfg)
      [] branch = 1 -> FiveYearPage(data, cfg, MATPLOTLIB_AVAILABLE, styling)
      [] branch = 2 -> QuarterlyPage(data, cfg, MATPLOTLIB_AVAILABLE, styling)
      [] branch = 3 -> SectorPage(data, MATPLOTLIB_AVAILABLE, styling)
      [] branch = 4 -> DowngradesPage(data, cfg, MATPLOTLIB_AVAILABLE, styling)
      [] branch = 5 -> ScenariosPage(data, widgets)
      [] branch = 6 -> DataExplorerPage(data, widgets)
      [] branch = 7 -> DataSourcesPage
      [] OTHER -> <<>>

\* the parts in order, up to the first whose read raises
RECURSIVE RenderParts(_, _, _)
RenderParts(r, parts, i) ==
    IF i > Len(parts) THEN r
    ELSE IF ~parts[i].ok THEN Halt(r, "crashed", parts[i].error)
    ELSE RenderParts(Show(r, parts[i].shown), parts, i + 1)

\* the if / elif chain over the pages
Page(r, e) ==
    IF r.status # "running" THEN r
    ELSE Then(PageChain(e.config.PAGES, r.page, 0),
              LAMBDA chain :
                 IF chain.error # "" THEN Halt(r, "crashed", chain.error)
                 ELSE RenderParts([r EXCEPT !.branch = chain.branch],
                                  PageBody(chain.branch, r.data, e.config, r.widgets,
                                           e.matplotlib, e.styling), 1))

\* render_divider(), render_footer(...) and the closing caption
Footer(r, cfg) ==
    IF r.status # "running" THEN r
    ELSE IF "text_muted" \notin cfg.COLORS THEN Halt(r, "crashed", "KeyError")
    ELSE Halt(Show(r, <<"footer">>), "done", "")

\* the script from its imports to its footer; c is the cache after the
\* import of the data module
ScriptRun(c, widgets, e) ==
    LET Imports(r) == ImportModules(r, e.config)
        PageSetup(r) == InitializePage(r, e.config)
        SidebarBlock(r) == Sidebar(r, e.config)
        HeaderBlock(r) == Header(r, e.config)
        PageBlock(r) == Page(r, e)
        FooterBlock(r) == Footer(r, e.config)
    IN  Then(Then(Then(Then(Then(Then(Then(
            Begin(c, widgets), Imports), PageSetup), LoadData),
            SidebarBlock), HeaderBlock), PageBlock), FooterBlock)

(***************************************************************************)
(* Sessions: each browser session runs the whole script on its first load  *)
(* and again on every interaction; the widget values are the session's,    *)
(* the cache is the process's                                              *)
(***************************************************************************)
Sessions == {"A", "B"}

NewSession ==
    [widgets |-> DefaultWidgets,
     out |-> [status |-> "new", error |-> "", shown |-> <<>>, page |-> "", branch |-> -1],
     seen |-> <<>>]

\* a widget the run did not render loses its value
WidgetsKept(r) ==
    [page |-> IF "sidebar: navigation" \in RangeOf(r.shown) THEN r.page ELSE r.widgets.page,
     selected_scenario |->
        IF "radio: scenario" \in RangeOf(r.shown)
        THEN SelectedScenario(r.data.scenarios, r.widgets) ELSE <<>>,
     data_option |->
        IF "selectbox: dataset" \in RangeOf(r.shown) THEN r.widgets.data_option
        ELSE "All Data"]

Run(s, widgets) ==
    \E r \in {ScriptRun(IF Imported THEN cache ELSE InitializeDataCached(cache),
                        widgets, env)} :
        /\ cache' = r.cache
        /\ call' = IF Imported THEN call
                   ELSE [fn |-> "initialize_data", arg |-> "",
                         val |-> ValidateResult(ValidateCached(cache))]
        /\ session' = [session EXCEPT ![s] =
               [widgets |-> WidgetsKept(r),
                out |-> [status |-> r.status, error |-> r.error, shown |-> r.shown,
                         page |-> r.page, branch |-> r.branch],
                seen |-> r.data]]
        /\ UNCHANGED <<sources, env>>

FirstRun ==
    \E s \in DOMAIN session :
        /\ session[s].out.status = "new"
        /\ Run(s, DefaultWidgets)

Rerun ==
    \E s \in DOMAIN session :
        /\ session[s].out.status # "new"
        /\ Run(s, session[s].widgets)

SelectPage ==
    \E s \in DOMAIN session :
        /\ "sidebar: navigation" \in RangeOf(session[s].out.shown)
        /\ \E page \in RangeOf(RadioOptions(env.config.PAGES)) \ {session[s].widgets.page} :
              Run(s, [session[s].widgets EXCEPT !.page = page])

SelectScenario ==
    \E s \in DOMAIN session :
        /\ "radio: scenario" \in RangeOf(session[s].out.shown)
        /\ \E name \in DOMAIN session[s].seen.scenarios \ {session[s].widgets.selected_scenario} :
              Run(s, [session[s].widgets EXCEPT !.selected_scenario = name])

SelectDataset ==
    \E s \in DOMAIN session :
        /\ "selectbox: dataset" \in RangeOf(session[s].out.shown)
        /\ \E option \in RangeOf(DataOptions) \ {session[s].widgets.data_option} :
              Run(s, [session[s].widgets EXCEPT !.data_option = option])

\* display_styled_dataframe called on the five-year table, with and without
\* columns to style
CallDisplayStyledDataframe ==
    /\ Imported
    /\ ~Raises(five_year)
    /\ \E columns_to_style \in {<<>>, GrowthColumns} :
          call' = [fn |-> "display_styled_dataframe",
                   arg |-> IF columns_to_style = <<>> THEN "" ELSE "columns_to_style",
                   val |-> display_styled_dataframe(five_year, columns_to_style,
                                                    env.matplotlib, env.styling)]
    /\ UNCHANGED <<sources, cache, app>>


Next ==
    \/ initialize_data
    \/ CallValidateData
    \/ CallLoadAllData
    \/ CallGetScenarios
    \/ CallCalculateNiftyLevels
    \/ CallCalculateKeyMetrics
    \/ CallGetDataSummary
    \/ CallExportToCsv
    \/ RenderValuationGap
    \/ RenderNiftyReturn
    \/ RenderLevelLabels
    \/ RenderRiskAssessment
    \/ CacheExpire

Spec == Init /\ [][Next]_vars

(***************************************************************************)
(* The same operations on other inputs.  SpecInputs starts from data sets  *)
(* that differ from the built-in ones in the values the projection and     *)
(* the CAGR computations read: either the Base Case's growth and P/E       *)
(* assumptions, or the first and last rows of the five-year table.         *)
(***************************************************************************)
MaxGrowth == 1
MaxRate == 1

BaseCaseName ==
    <<"B", "a", "s", "e", " ", "C", "a", "s", "e", " ", "(", "5", "0", "%", ")">>

\* percentages in tenths: around zero, and two of the built-in magnitudes
GrowthInputs == (-MaxGrowth..MaxGrowth) \cup {55, 125}
PeInputs == {0, 245}
RateInputs == (-MaxRate..MaxRate) \cup {16}

ScenarioInputs ==
    {[get_scenarios EXCEPT ![BaseCaseName] =
          [@ EXCEPT !.fy25_earnings = g1, !.fy26_earnings = g2, !.fy27_earnings = g3,
                    !.fy25_pe = p1, !.fy26_pe = p2, !.fy27_pe = p3]] :
        g1 \in GrowthInputs, g2 \in GrowthInputs, g3 \in GrowthInputs,
        p1 \in PeInputs, p2 \in PeInputs, p3 \in PeInputs}

SetCell(tbl, r, name, cell) ==
    [tbl EXCEPT !.rows[r][ColIndex(tbl, name)] = cell]

FiveYearInputs ==
    {SetCell(SetCell(SetCell(SetCell(get_five_year_data,
            1, ColRevenueGrowth, FloatCell(r1)),
            5, ColRevenueGrowth, FloatCell(r5)),
            1, ColPatGrowth, FloatCell(p1)),
            5, ColPatGrowth, FloatCell(p5)) :
        r1 \in RateInputs, r5 \in RateInputs, p1 \in RateInputs, p5 \in RateInputs}

\* the last quarter's revenue growth just below, at and just above 8
QuarterlyInputs ==
    {SetCell(get_quarterly_data, 3, ColRevenueGrowth, FloatCell(r)) : r \in {79, 80, 81}}

InitInputs ==
    /\ \/ /\ five_year = get_five_year_data /\ scenarios \in ScenarioInputs
          /\ quarterly = get_quarterly_data
       \/ /\ five_year \in FiveYearInputs /\ scenarios = get_scenarios
          /\ quarterly = get_quarterly_data
       \/ /\ five_year = get_five_year_data /\ scenarios = get_scenarios
          /\ quarterly \in QuarterlyInputs
    /\ sector = get_sector_data
    /\ downgrades = get_downgrade_data
    /\ cache = <<>>
    /\ call = NoCall
    /\ env = [config |-> config_py, matplotlib |-> TRUE, styling |-> "ok"]
    /\ session = <<>>

NextInputs ==
    \/ initialize_data
    \/ CallLoadAllData
    \/ CallCalculateNiftyLevels
    \/ CallCalculateKeyMetrics
    \/ RenderEarningsCagr

SpecInputs == InitInputs /\ [][NextInputs]_vars

(***************************************************************************)
(* The app in other surroundings.  SpecApp starts the two sessions either  *)
(* on the built-in data with the config module and the styling support     *)
(* varied, or on data sets with one defect each (a row missing, a column   *)
(* missing, a scenario field missing, a table whose construction raises)   *)
(* under a config module that defines what the app and the styles module   *)
(* read from it.                                                           *)
(***************************************************************************)
\* config.py with the names, keys and the eight-entry PAGES list that
\* streamlit_app.py and styles.py read
ConfigReadByApp ==
    [names |-> config_py.names \cup AppConfigImports \cup StylesConfigImports,
     COLORS |-> config_py.COLORS \cup CssColors,
     PAGES |-> [kind |-> "list", keys |-> PAGES.keys \o <<"U+1F4DA Data Sources">>],
     MESSAGES |-> HeaderMessages,
     FONTS |-> CssFonts]

EnvInputs ==
    [config : {config_py, ConfigReadByApp}, matplotlib : BOOLEAN, styling : {"ok", "raises"}]

BearCaseName ==
    <<"B", "e", "a", "r", " ", "C", "a", "s", "e", " ", "(", "2", "5", "%", ")">>

WithoutColumn(tbl, name) ==
    LET keep == SelectSeq([i \in 1..Len(tbl.cols) |-> i], LAMBDA i : tbl.cols[i] # name)
    IN  [cols |-> [j \in 1..Len(keep) |-> tbl.cols[keep[j]]],
         rows |-> [r \in 1..Len(tbl.rows) |->
                      [j \in 1..Len(keep) |-> tbl.rows[r][keep[j]]]]]

WithoutField(scs, name, field) ==
    [scs EXCEPT ![name] = [k \in DOMAIN scs[name] \ {field} |-> scs[name][k]]]

BuiltIn ==
    <<get_five_year_data, get_quarterly_data, get_sector_data, get_downgrade_data,
      get_scenarios>>

\* <<five_year, quarterly, sector, downgrades, scenarios>> with one defect
DefectInputs ==
    {[BuiltIn EXCEPT ![1] = [@ EXCEPT !.rows = SubSeq(@, 1, 4)]],
     [BuiltIn EXCEPT ![1] = WithoutColumn(@, ColRevenueGrowth)],
     [BuiltIn EXCEPT ![1] = WithoutColumn(@, ColPatGrowth)],
     [BuiltIn EXCEPT ![3] = Raising("ValueError")],
     [BuiltIn EXCEPT ![5] = WithoutField(@, BearCaseName, "fy25_pe")]}

SourcesAre(d) ==
    /\ five_year = d[1]
    /\ quarterly = d[2]
    /\ sector = d[3]
    /\ downgrades = d[4]
    /\ scenarios = d[5]

InitApp ==
    /\ \/ SourcesAre(BuiltIn) /\ env \in EnvInputs
       \/ /\ \E d \in DefectInputs : SourcesAre(d)
          /\ env \in {e \in EnvInputs : e.matplotlib /\ e.styling = "ok"}
    /\ cache = <<>>
    /\ call = NoCall
    /\ session = [s \in Sessions |-> NewSession]

NextApp ==
    \/ FirstRun
    \/ Rerun
    \/ SelectPage
    \/ SelectScenario
    \/ SelectDataset
    \/ CallDisplayStyledDataframe

SpecApp == InitApp /\ [][NextApp]_vars

(***************************************************************************)
(* Two sessions on the built-in data, each running the script again and    *)
(* again on its first page, with the cache entries expiring one by one     *)
(***************************************************************************)
InitSessions ==
    /\ SourcesAre(BuiltIn)
    /\ env \in {e \in EnvInputs : e.matplotlib /\ e.styling = "ok"}
    /\ cache = <<>>
    /\ call = NoCall
    /\ session = [s \in Sessions |-> NewSession]

NextSessions ==
    \/ FirstRun
    \/ Rerun
    \/ CacheExpire

SpecSessions == InitSessions /\ [][NextSessions]_vars

(***************************************************************************)
(* Reading CSV text back (what csv.reader / pandas.read_csv do with the    *)
(* text; not code of this repository): records of fields, a quoted field   *)
(* may hold commas and doubled quotes; then the table with each column     *)
(* typed int if every field is an integer, float if every field is a       *)
(* number, text otherwise                                                  *)
(***************************************************************************)
\* the place of the separator (an unquoted comma or line break) that ends
\* the field starting at i, or Len(text) + 1
RECURSIVE FieldEnd(_, _, _)
FieldEnd(text, i, quoted) ==
    IF i > Len(text) THEN i
    ELSE IF text[i] = "\"" THEN FieldEnd(text, i + 1, ~quoted)
    ELSE IF ~quoted /\ text[i] \in {",", "\n"} THEN i
    ELSE FieldEnd(text, i + 1, quoted)

RECURSIVE UndoubleQuotes(_)
UndoubleQuotes(s) ==
    IF s = <<>> THEN <<>>
    ELSE IF Len(s) >= 2 /\ s[1] = "\"" /\ s[2] = "\""
    THEN <<"\"">> \o UndoubleQuotes(SubSeq(s, 3, Len(s)))
    ELSE <<Head(s)>> \o UndoubleQuotes(Tail(s))

Unquote(raw) ==
    IF Len(raw) >= 2 /\ raw[1] = "\"" /\ raw[Len(raw)] = "\""
    THEN UndoubleQuotes(SubSeq(raw, 2, Len(raw) - 1))
    ELSE raw

\* the record starting at i and the place after its line break
RECURSIVE CsvRecordFrom(_, _, _)
CsvRecordFrom(text, i, fields) ==
    LET j == FieldEnd(text, i, FALSE)
        got == Append(fields, Unquote(SubSeq(text, i, j - 1)))
    IN  IF j <= Len(text) /\ text[j] = ","
        THEN CsvRecordFrom(text, j + 1, got)
        ELSE [fields |-> got, next |-> j + 1]

RECURSIVE CsvRecordsFrom(_, _, _)
CsvRecordsFrom(text, i, records) ==
    IF i > Len(text) THEN records
    ELSE LET rec == CsvRecordFrom(text, i, <<>>)
         IN  CsvRecordsFrom(text, rec.next, Append(records, rec.fields))

CsvRecords(text) == CsvRecordsFrom(text, 1, <<>>)

DigitValue(c) == CHOOSE d \in 0..9 : DigitChar[d + 1] = c
IsDigits(s) == Len(s) >= 1 /\ \A i \in 1..Len(s) : \E d \in 0..9 : DigitChar[d + 1] = s[i]

RECURSIVE NatOfChars(_)
NatOfChars(s) ==
    IF s = <<>> THEN 0
    ELSE 10 * NatOfChars(SubSeq(s, 1, Len(s) - 1)) + DigitValue(s[Len(s)])

Unsigned(s) == IF s # <<>> /\ Head(s) = "-" THEN Tail(s) ELSE s
SignOf(s) == IF s # <<>> /\ Head(s) = "-" THEN -1 ELSE 1

IsIntText(s) == IsDigits(Unsigned(s))
\* digits, a point, one digit
IsFloatText(s) ==
    LET u == Unsigned(s)
    IN  /\ Len(u) >= 3
        /\ u[Len(u) - 1] = "."
        /\ IsDigits(SubSeq(u, 1, Len(u) - 2))
        /\ IsDigits(<<u[Len(u)]>>)

IntOfText(s) == SignOf(s) * NatOfChars(Unsigned(s))
TenthsOfText(s) ==
    LET u == Unsigned(s)
    IN  IF IsIntText(s) THEN 10 * IntOfText(s)
        ELSE SignOf(s) * (10 * NatOfChars(SubSeq(u, 1, Len(u) - 2)) + DigitValue(u[Len(u)]))

ReadCsv(text) ==
    LET recs == CsvRecords(text)
        body == Tail(recs)
        column(j) == {body[r][j] : r \in 1..Len(body)}
        typed(j, f) ==
            IF \A x \in column(j) : IsIntText(x) THEN IntCell(IntOfText(f))
            ELSE IF \A x \in column(j) : IsIntText(x) \/ IsFloatText(x)
            THEN FloatCell(TenthsOfText(f))
            ELSE StrCell(f)
    IN  [cols |-> Head(recs),
         rows |-> [r \in 1..Len(body) |->
                      [j \in 1..Len(body[r]) |-> typed(j, body[r][j])]]]

(***************************************************************************)
(* Properties                                                              *)
(***************************************************************************)
DecLt(a, b) == ~DecLeq(b, a)

EarningsKey == <<"fy25_earnings", "fy26_earnings", "fy27_earnings">>
PeKey == <<"fy25_pe", "fy26_pe", "fy27_pe">>

\* 2150 * (1 + g_1/100) * ... * (1 + g_t/100) * pe_t / 1000 written as one
\* quotient of naturals: the numerator over 10^(3t + 4)
RECURSIVE GrowthProduct(_, _)
GrowthProduct(data, t) ==
    IF t = 0 THEN BigOfNat(2150)
    ELSE BigMulSmall(GrowthProduct(data, t - 1), 1000 + data[EarningsKey[t]])

CompoundedLevel(data, t) ==
    [s |-> 1, m |-> BigMulSmall(GrowthProduct(data, t), data[PeKey[t]]), e |-> 3 * t + 4]

\* C1: for every scenario given to calculate_nifty_levels the three levels
\* are level_t = eps_t * pe_t / 1000 with eps_t compounded year over year
\* from the base EPS 2150, eps_t = eps_(t-1) * (1 + g_t/100), and multiplied
\* by that year's P/E alone.
C1_LevelsCompoundEps ==
    call.fn = "calculate_nifty_levels" =>
        /\ DOMAIN call.val = DOMAIN scenarios
        /\ \A n \in DOMAIN scenarios : \A t \in 1..3 :
              DecEq(call.val[n][t], CompoundedLevel(scenarios[n], t))

C1_Witness ==
    /\ call.fn = "calculate_nifty_levels"
    /\ scenarios[BaseCaseName].fy25_earnings = 55
    /\ scenarios[BaseCaseName].fy26_earnings = -1
    /\ scenarios[BaseCaseName].fy27_earnings = 125
    /\ scenarios[BaseCaseName].fy27_pe = 245
    /\ ~DecIsZero(call.val[BaseCaseName][3])

\* C2: with the built-in Base Case and base EPS 2150, the levels of
\* load_all_data()['nifty_levels']['Base Case (50%)'] times 1000 are 56706.25,
\* 61685.1 and 67979.5 to one decimal, and the levels themselves 56.7, 61.7
\* and 68.0 to one decimal.
C2_BaseCaseLevels ==
    call.fn = "load_all_data" =>
        LET lv == call.val.nifty_levels[BaseCaseName]
        IN  /\ DecEq(lv[1], DecOf(5670625, 5))
            /\ DecLeq(DecOf(6168505, 5), lv[2]) /\ DecLt(lv[2], DecOf(6168515, 5))
            /\ DecLeq(DecOf(6797945, 5), lv[3]) /\ DecLt(lv[3], DecOf(6797955, 5))
            /\ DecLeq(DecOf(5665, 2), lv[1]) /\ DecLt(lv[1], DecOf(5675, 2))
            /\ DecLeq(DecOf(6165, 2), lv[2]) /\ DecLt(lv[2], DecOf(6175, 2))
            /\ DecLeq(DecOf(6795, 2), lv[3]) /\ DecLt(lv[3], DecOf(6805, 2))

C2_Witness ==
    /\ call.fn = "load_all_data"
    /\ call.val.scenarios[BaseCaseName].fy25_earnings = 55
    /\ Len(call.val.nifty_levels[BaseCaseName]) = 3

\* the start and end values the two CAGR computations of calculate_key_metrics read
FirstRevenue == Tenths(Cell(five_year, 1, ColRevenueGrowth))
LastRevenue == Tenths(Cell(five_year, NRows(five_year), ColRevenueGrowth))
FirstPat == Tenths(Cell(five_year, 1, ColPatGrowth))
LastPat == Tenths(Cell(five_year, NRows(five_year), ColPatGrowth))

ZeroRate == [kind |-> "float", v |-> 0]

\* C3: every CAGR computation (revenue and PAT CAGR of calculate_key_metrics,
\* Earnings CAGR of the Scenarios page) yields 0 and raises no error when its
\* start value is less than or equal to 0.
C3_ZeroOnNonPositiveStart ==
    /\ call.fn = "calculate_key_metrics" =>
          /\ FirstRevenue <= 0 => call.val.revenue_cagr = 0
          /\ FirstPat <= 0 => call.val.pat_cagr = 0
    /\ call.fn = "earnings_cagr" =>
          (scenarios[call.arg].fy25_earnings <= 0 => call.val = ZeroRate)

\* C4: for every CAGR computation, a start value equal to the end value
\* gives 0, whatever the value (positive, zero or negative).
C4_ZeroOnEqualEnds ==
    /\ call.fn = "calculate_key_metrics" =>
          /\ FirstRevenue = LastRevenue => call.val.revenue_cagr = 0
          /\ FirstPat = LastPat => call.val.pat_cagr = 0
    /\ call.fn = "earnings_cagr" =>
          (scenarios[call.arg].fy25_earnings = scenarios[call.arg].fy27_earnings
              => call.val = ZeroRate)

\* c is ((last / first) ** (1/4) - 1) * 100 in tenths of a percent, truncated:
\* (1000 + c)^4 * first <= last * 1000^4 < (1001 + c)^4 * first
IsStandardCagr(c, first, last) ==
    /\ c >= -1000
    /\ RootFits(1000 + c, 4, last, first)
    /\ ~RootFits(1001 + c, 4, last, first)

\* C5 as stated: whenever the start value is greater than 0 the revenue and
\* PAT CAGR of calculate_key_metrics equal ((end/start)^(1/4) - 1) * 100, in
\* particular -100 for an end value of 0.
C5_FormulaWheneverStartPositive ==
    call.fn = "calculate_key_metrics" =>
        /\ FirstRevenue > 0 /\ LastRevenue >= 0 =>
              IsStandardCagr(call.val.revenue_cagr, FirstRevenue, LastRevenue)
        /\ FirstPat > 0 /\ LastPat >= 0 =>
              IsStandardCagr(call.val.pat_cagr, FirstPat, LastPat)

\* C5 amended: whenever the start and the end value are both greater than 0
\* the revenue and PAT CAGR of calculate_key_metrics equal
\* ((end/start)^(1/4) - 1) * 100; for a start value greater than 0 and an end
\* value of 0 or less the result is the substituted 0.
C5_FormulaWhenBothPositive ==
    call.fn = "calculate_key_metrics" =>
        /\ FirstRevenue > 0 /\ LastRevenue > 0 =>
              IsStandardCagr(call.val.revenue_cagr, FirstRevenue, LastRevenue)
        /\ FirstRevenue > 0 /\ LastRevenue <= 0 => call.val.revenue_cagr = 0
        /\ FirstPat > 0 /\ LastPat > 0 =>
              IsStandardCagr(call.val.pat_cagr, FirstPat, LastPat)
        /\ FirstPat > 0 /\ LastPat <= 0 => call.val.pat_cagr = 0

C5_Witness ==
    /\ call.fn = "calculate_key_metrics"
    /\ FirstRevenue = 1 /\ LastRevenue = 16 /\ call.val.revenue_cagr = 1000
    /\ FirstPat = 1 /\ LastPat = 0 /\ call.val.pat_cagr = 0

\* the number between "(" and "%" in a scenario name
PctInName(name) ==
    LET open == CHOOSE i \in 1..Len(name) : name[i] = "("
        pct == CHOOSE i \in 1..Len(name) : name[i] = "%"
    IN  NatOfChars(SubSeq(name, open + 1, pct - 1))

RECURSIVE SumProbabilities(_, _)
SumProbabilities(scs, names) ==
    IF names = {} THEN 0
    ELSE LET n == CHOOSE x \in names : TRUE
         IN  scs[n].probability + SumProbabilities(scs, names \ {n})

\* C6: the probabilities of the scenarios get_scenarios returns sum to 1.0,
\* each equals the percentage in the scenario's name, and
\* config.SCENARIO_WEIGHTS gives the same weights for the same three names.
C6_ProbabilitiesSumToOne ==
    call.fn = "get_scenarios" =>
        /\ SumProbabilities(call.val, DOMAIN call.val) = 100
        /\ \A n \in DOMAIN call.val : call.val[n].probability = PctInName(n)
        /\ DOMAIN SCENARIO_WEIGHTS = DOMAIN call.val
        /\ Cardinality(DOMAIN call.val) = 3
        /\ \A n \in DOMAIN call.val : SCENARIO_WEIGHTS[n] = call.val[n].probability

C6_Witness ==
    /\ call.fn = "get_scenarios"
    /\ BaseCaseName \in DOMAIN call.val
    /\ call.val[BaseCaseName].probability = 50

\* C7: the 'Weight in Nifty (%)' values of the sector table sum to 100, and
\* get_data_summary()['total_weight_analyzed'] is 100.
C7_SectorWeightsSumTo100 ==
    call.fn = "get_data_summary" =>
        /\ ColumnSum(sector, ColWeight) = 100
        /\ call.val.total_weight_analyzed = 100

\* C8: validate_data checks the sector weight total: when the sector weights
\* do not sum to 100 it returns (False, message).
C8_ValidateChecksWeightTotal ==
    call.fn = "validate_data" =>
        (ColumnSum(sector, ColWeight) # 100 => call.val.success = FALSE)

\* the in-memory table export_to_csv serializes for a key
ExportedTable(data_type) == data_map(five_year, quarterly, sector, downgrades)[data_type]

\* C9: for each of the four tables, reading back the text export_to_csv
\* returns gives the same row count, the same column names in the same order
\* and the same cell values as the in-memory table, also where a cell holds a
\* comma.
C9_CsvRoundTrips ==
    call.fn = "export_to_csv" /\ call.arg \in {"five_year", "quarterly", "sector", "downgrades"} =>
        LET back == ReadCsv(call.val)
            tbl == ExportedTable(call.arg)
        IN  /\ NRows(back) = NRows(tbl)
            /\ back.cols = tbl.cols
            /\ \A r \in 1..NRows(tbl) : back.rows[r] = tbl.rows[r]

HasComma(cell) == cell.t = "str" /\ \E i \in 1..Len(cell.s) : cell.s[i] = ","

C9_Witness ==
    /\ call.fn = "export_to_csv"
    /\ call.arg = "downgrades"
    /\ \E r \in 1..NRows(downgrades) : HasComma(downgrades.rows[r][1])
    /\ \E i \in 1..Len(call.val) : call.val[i] = "\""

LineBreaks(text) == Cardinality({i \in 1..Len(text) : text[i] = "\n"})

\* C10: export_to_csv(k) for the four keys is the table's header row followed
\* by one comma-separated line per table row, without an index column; for
\* any other k it is the empty string.
C10_ExportShape ==
    call.fn = "export_to_csv" =>
        IF call.arg \in {"five_year", "quarterly", "sector", "downgrades"}
        THEN LET recs == CsvRecords(call.val)
                 tbl == ExportedTable(call.arg)
             IN  /\ Len(recs) = 1 + NRows(tbl)
                 /\ LineBreaks(call.val) = 1 + NRows(tbl)
                 /\ call.val[Len(call.val)] = "\n"
                 /\ recs[1] = tbl.cols
                 /\ \A r \in 1..NRows(tbl) :
                       /\ Len(recs[r + 1]) = Len(tbl.cols)
                       /\ \A j \in 1..Len(tbl.cols) :
                             recs[r + 1][j] = FormatCell(tbl.rows[r][j])
        ELSE call.val = <<>>

C10_Witness ==
    /\ call.fn = "export_to_csv"
    /\ call.arg = "scenarios"
    /\ call.val = <<>>
    /\ "load_all_data" \in DOMAIN cache

(***************************************************************************)
(* The app: script runs of the sessions                                    *)
(***************************************************************************)
ScenariosPageName == ConfigReadByApp.PAGES.keys[6]

\* the tables and scenarios a cache entry or a session holds are the ones the
\* getters define
ObservedAreSources ==
    /\ \A i \in 1..4 :
          TableFunctions[i] \in DOMAIN cache => cache[TableFunctions[i]] = sources[i]
    /\ "get_scenarios" \in DOMAIN cache => cache["get_scenarios"] = scenarios
    /\ \A loaded \in {cache[n] : n \in DOMAIN cache \cap {"load_all_data"}}
                     \cup {session[s].seen : s \in {t \in DOMAIN session : session[t].seen # <<>>}} :
          <<loaded.five_year, loaded.quarterly, loaded.sector, loaded.downgrades,
            loaded.scenarios>> = sources

\* C11: the tables and the scenario set are never mutated: no script run, page
\* selection, scenario selection or other call changes what the getters
\* define, every cached and every observed table and scenario value equals
\* that definition, and calculate_nifty_levels leaves the scenarios it is
\* given as they were.
C11_NeverMutated == [][sources' = sources /\ ObservedAreSources']_vars

C11_Witness ==
    /\ sources = BuiltIn
    /\ "calculate_nifty_levels" \in DOMAIN cache
    /\ \E s \in DOMAIN session :
          /\ session[s].out.status = "done"
          /\ session[s].out.page = ScenariosPageName
          /\ session[s].widgets.selected_scenario = BearCaseName
          /\ session[s].seen.scenarios = get_scenarios

\* the imports, initialize_page() and apply_custom_css() find what they read
\* in the config module, so that a run gets as far as the data loading block
StartupReads(cfg) ==
    /\ AppConfigImports \cup StylesConfigImports \subseteq cfg.names
    /\ HeaderMessages \subseteq cfg.MESSAGES
    /\ CssColors \subseteq cfg.COLORS
    /\ CssFonts \subseteq cfg.FONTS

\* a getter raises, and with it load_all_data
LoadRaises == \E i \in 1..4 : Raises(sources[i])

AfterLoading ==
    {"sidebar: navigation", "sidebar: metrics", "sidebar: alert", "title", "footer"}

\* C12: when load_all_data (or validate_data) raises in the data loading
\* block, the run shows the error banner and stops there: no sidebar, page or
\* footer follows the banner, and the exception does not leave the script.
C12_LoadErrorStopsRun ==
    \A s \in DOMAIN session :
        (session[s].out.status # "new" /\ StartupReads(env.config) /\ LoadRaises) =>
            /\ session[s].out.status = "stopped"
            /\ session[s].out.shown[Len(session[s].out.shown)] = "error: failed to load data"
            /\ \A i \in 1..Len(session[s].out.shown) - 1 :
                  session[s].out.shown[i] = "warning: data validation"
            /\ session[s].out.branch = -1

C12_Witness ==
    /\ Raises(sector)
    /\ \E s \in DOMAIN session :
          /\ session[s].out.status = "stopped"
          /\ session[s].out.shown = <<"warning: data validation", "error: failed to load data">>
          /\ AfterLoading \cap RangeOf(session[s].out.shown) = {}

\* C13: when calculate_key_metrics has substituted its all-zero fallback, the
\* run still renders the sidebar metrics, the market alert, the selected page
\* and the footer, and ends without an uncaught error.
C13_FallbackMetricsRender ==
    \A s \in DOMAIN session :
        (session[s].seen # <<>> /\ session[s].seen.metrics = KeyMetricsFallback) =>
            /\ session[s].out.status = "done"
            /\ {"sidebar: metrics", "sidebar: alert", "footer"}
                  \subseteq RangeOf(session[s].out.shown)
            /\ session[s].out.branch \in 0..LastBranch

TablesShown(elements) ==
    Cardinality({i \in 1..Len(elements) : elements[i] \in {"dataframe", "dataframe: styled"}})

\* C14: display_styled_dataframe shows the table exactly once on every path:
\* styled when matplotlib is available, columns are given and styling
\* succeeds; otherwise unstyled, with nothing raised.
C14_TableShownOnce ==
    call.fn = "display_styled_dataframe" =>
        /\ TablesShown(call.val) = 1
        /\ "dataframe: styled" \in RangeOf(call.val)
              <=> /\ env.matplotlib
                  /\ call.arg = "columns_to_style"
                  /\ env.styling = "ok"
                  /\ HasCols(five_year, RangeOf(GrowthColumns))

C14_Witness ==
    /\ call.fn = "display_styled_dataframe"
    /\ call.arg = "columns_to_style"
    /\ env.matplotlib
    /\ env.styling = "raises"
    /\ call.val = <<"warning: styling failed", "dataframe">>

(***************************************************************************)
(* Two sessions and the shared cache                                       *)
(***************************************************************************)
\* what each data function computes when nothing is cached
FreshValue(name) ==
    CASE name = "get_five_year_data" -> get_five_year_data
      [] name = "get_quarterly_data" -> get_quarterly_data
      [] name = "get_sector_data" -> get_sector_data
      [] name = "get_downgrade_data" -> get_downgrade_data
      [] name = "get_scenarios" -> get_scenarios
      [] name = "calculate_nifty_levels" -> calculate_nifty_levels(get_scenarios)
      [] name = "calculate_key_metrics" ->
            calculate_key_metrics(get_five_year_data, get_quarterly_data)
      [] name = "load_all_data" ->
            [five_year |-> get_five_year_data,
             quarterly |-> get_quarterly_data,
             sector |-> get_sector_data,
             downgrades |-> get_downgrade_data,
             scenarios |-> get_scenarios,
             nifty_levels |-> calculate_nifty_levels(get_scenarios),
             metrics |-> calculate_key_metrics(get_five_year_data, get_quarterly_data)]
      [] OTHER -> TRUE

AllChecksPass ==
    /\ ~LoadRaises
    /\ NRows(five_year) = 5 /\ NRows(quarterly) = 3
    /\ NRows(sector) = 10 /\ NRows(downgrades) = 6
    /\ Cardinality(DOMAIN scenarios) = 3
    /\ HasCol(five_year, ColRevenueGrowth) /\ HasCol(quarterly, ColPatGrowth)
    /\ HasCol(sector, ColWeight) /\ HasCol(downgrades, ColFY25ProfitGrowth)
    /\ \A r \in 1..NRows(five_year) :
          /\ IsNumber(Cell(five_year, r, ColRevenueGrowth))
          /\ Tenths(Cell(five_year, r, ColRevenueGrowth)) \in (-999)..999
    /\ \A n \in DOMAIN scenarios :
          /\ {"fy25_earnings", "fy25_pe", "probability"} \subseteq DOMAIN scenarios[n]
          /\ scenarios[n].probability > 0

\* C16: validate_data never propagates an exception: it returns a pair of a
\* Boolean and a message, True exactly when every shape, column, range and
\* scenario check passes; on the built-in data it returns True.
C16_ValidateReturnsPair ==
    /\ call.fn \in {"initialize_data", "validate_data"} =>
          /\ DOMAIN call.val = {"success", "message"}
          /\ call.val.success \in BOOLEAN
          /\ call.val.success <=> AllChecksPass
          /\ sources = BuiltIn => call.val.success
    /\ \A s \in DOMAIN session :
          (session[s].out.status # "new" /\ StartupReads(env.config)) =>
              ("warning: data validation" \in RangeOf(session[s].out.shown)
                  <=> ~AllChecksPass)

\* a getter raised inside validate_data, which returned False
C16_Witness ==
    /\ call.fn = "initialize_data"
    /\ LoadRaises
    /\ call.val = [success |-> FALSE, message |-> "Data validation error: ValueError"]

(***************************************************************************)
(* calculate_nifty_levels on scenarios of which one lacks a field          *)
(***************************************************************************)
ZeroLevels == <<DecOf(0, 0), DecOf(0, 0), DecOf(0, 0)>>

\* C17: calculate_nifty_levels returns one entry of three numbers per
\* scenario it is given: [0, 0, 0] for a scenario whose computation raises,
\* and for every other scenario what it returns when none raises; so the
\* levels of the scenario selected on the Scenarios page exist.
C17_OneEntryPerScenario ==
    \A s \in DOMAIN session :
        session[s].seen # <<>> =>
            /\ DOMAIN session[s].seen.nifty_levels = DOMAIN scenarios
            /\ \A n \in DOMAIN scenarios :
                  /\ Len(session[s].seen.nifty_levels[n]) = 3
                  /\ ~(ProjectionKeys \subseteq DOMAIN scenarios[n]) =>
                        session[s].seen.nifty_levels[n] = ZeroLevels
                  /\ scenarios[n] = get_scenarios[n] =>
                        session[s].seen.nifty_levels[n] = calculate_nifty_levels(get_scenarios)[n]
            /\ "radio: scenario" \in RangeOf(session[s].out.shown) =>
                  /\ session[s].widgets.selected_scenario \in DOMAIN session[s].seen.nifty_levels
                  /\ Len(session[s].seen.nifty_levels[session[s].widgets.selected_scenario]) = 3

\* the Bear Case lacks fy25_pe: its levels are zeros, the Base Case's are the
\* built-in ones, and the Scenarios page has been opened
C17_Witness ==
    /\ "fy25_pe" \notin DOMAIN scenarios[BearCaseName]
    /\ \E s \in DOMAIN session :
          /\ session[s].seen # <<>>
          /\ session[s].seen.nifty_levels[BearCaseName] = ZeroLevels
          /\ session[s].seen.nifty_levels[BaseCaseName] = ScenarioLevels(get_scenarios[BaseCaseName])
          /\ "radio: scenario" \in RangeOf(session[s].out.shown)

(***************************************************************************)
(* A failed validation                                                     *)
(***************************************************************************)
\* the run of the script that imported the data module was stopped at the
\* config import: the cache holds what initialize_data() left
OnlyImported ==
    /\ ~StartupReads(env.config)
    /\ \A s \in DOMAIN session : session[s].out.status \in {"new", "stopped"}

\* C18: a failed validation does not stop the app: the script shows the
\* warning, still calls load_all_data and renders the navigation, the page
\* and the footer; initialize_data calls load_all_data only when the
\* validation succeeded.
C18_FailedValidationGoesOn ==
    /\ \A s \in DOMAIN session :
          (session[s].out.status # "new" /\ StartupReads(env.config) /\ ~AllChecksPass) =>
              /\ "warning: data validation" \in RangeOf(session[s].out.shown)
              /\ session[s].seen # <<>>
              /\ {"sidebar: navigation", "footer"} \subseteq RangeOf(session[s].out.shown)
              /\ session[s].out.branch \in 0..LastBranch
              /\ session[s].out.status = "done"
    /\ (Imported /\ OnlyImported) =>
          ("load_all_data" \in DOMAIN cache <=> AllChecksPass)

(***************************************************************************)
(* The repository's config module                                          *)
(***************************************************************************)
\* C19: with the repository's config.py every name the app and styles import
\* from config is defined, every COLORS key they read is present, and a run
\* reaches the sidebar navigation without the error-and-stop of an import.
C19_StartupReachesSidebar ==
    \A s \in DOMAIN session :
        (env.config = config_py /\ session[s].out.status # "new") =>
            /\ AppConfigImports \cup StylesConfigImports \subseteq env.config.names
            /\ CssColors \cup {"text_muted", "dark_blue", "chart_blue", "accent_red"}
                  \subseteq env.config.COLORS
            /\ session[s].out.status # "stopped"
            /\ "sidebar: navigation" \in RangeOf(session[s].out.shown)

\* the branches of the chain whose condition holds for a page
BranchesMatching(pages, page) ==
    {k \in 0..LastBranch : Subscript(pages, k).ok /\ Subscript(pages, k).v = page}

\* C20: for every page the sidebar radio offers exactly one branch of the
\* page chain matches, every branch PAGES[0] to PAGES[7] refers to an entry
\* of PAGES, and evaluating the chain raises for no page.
C20_PagesMatchBranches ==
    Imported =>
        /\ \A k \in 0..LastBranch : Subscript(env.config.PAGES, k).ok
        /\ \A page \in RangeOf(RadioOptions(env.config.PAGES)) :
              /\ Cardinality(BranchesMatching(env.config.PAGES, page)) = 1
              /\ PageChain(env.config.PAGES, page, 0).error = ""
              /\ PageChain(env.config.PAGES, page, 0).branch
                    \in BranchesMatching(env.config.PAGES, page)

(***************************************************************************)
(* The order of a run                                                      *)
(***************************************************************************)
\* the first element of each page body, by branch of the chain
PageTitles ==
    <<"page: overview", "page: 5-year trend", "page: quarterly deep-dive",
      "page: sector analysis", "page: earnings downgrades", "page: scenarios",
      "page: data explorer", "page: data sources">>

\* what a run rendered after the data loading block
AfterLoad(shown) ==
    SelectSeq(shown, LAMBDA element : element # "warning: data validation")

Occurrences(elements, wanted) ==
    Cardinality({i \in 1..Len(elements) : elements[i] \in wanted})

GapOverMidpoint(metrics) ==
    RoundHalfEven(100 * (2 * metrics.pe_current - 10 * FairRangeSum(metrics)),
                  10 * FairRangeSum(metrics))

\* C22: the valuation gap of the market alert is the percentage by which the
\* current P/E exceeds the midpoint of the fair range,
\* (pe_current / ((low + high) / 2) - 1) * 100, and so is positive whenever
\* pe_current is above the midpoint, as for the built-in 25.0 and 10 to 12.
C22_GapOverMidpoint ==
    call.fn = "valuation_gap" =>
        /\ call.val.kind = "float"
        /\ call.val.v = GapOverMidpoint(calculate_key_metrics(five_year, quarterly))
        /\ call.val.v > 0

BullCaseName == ScenarioNames[3]

\* C23: the Nifty return the Scenarios page computes for the Bear Case is
\* below 0 (the Overview states -0.2% p.a.), that is, its FY27 level times
\* 1000 is below 23500; the returns of the Base and Bull cases are above 0.
C23_BearReturnNegative ==
    call.fn = "nifty_return" =>
        /\ call.val.kind = "float"
        /\ call.arg = BearCaseName =>
              /\ call.val.v < 0
              /\ DecLt(DecMul(calculate_nifty_levels(scenarios)[BearCaseName][3], DecOf(1000, 0)),
                       DecOf(StartingNifty, 0))
        /\ call.arg \in {BaseCaseName, BullCaseName} => call.val.v > 0

\* C24: for the built-in scenarios the projected levels of each forward year
\* are ordered Bear Case < Base Case < Bull Case, and within each scenario
\* the level strictly increases from FY25 to FY26 to FY27.
C24_LevelsOrdered ==
    call.fn = "calculate_nifty_levels" =>
        /\ \A t \in 1..3 :
              /\ DecLt(call.val[BearCaseName][t], call.val[BaseCaseName][t])
              /\ DecLt(call.val[BaseCaseName][t], call.val[BullCaseName][t])
        /\ \A n \in DOMAIN call.val :
              /\ DecLt(call.val[n][1], call.val[n][2])
              /\ DecLt(call.val[n][2], call.val[n][3])

C24_Witness ==
    /\ call.fn = "calculate_nifty_levels"
    /\ DOMAIN call.val = {BearCaseName, BaseCaseName, BullCaseName}
    /\ scenarios = get_scenarios
    /\ call.val[BearCaseName] = ScenarioLevels(get_scenarios[BearCaseName])
    /\ DecLt(DecOf(53, 0), call.val[BearCaseName][3])
    /\ DecLt(call.val[BearCaseName][3], DecOf(54, 0))

(***************************************************************************)
(* calculate_key_metrics: the derived fields                               *)
(***************************************************************************)
LastQuarterRevenue == Tenths(Cell(quarterly, NRows(quarterly), ColRevenueGrowth))

\* C25: in the result of calculate_key_metrics divergence_factor is pat_cagr
\* minus revenue_cagr, profit_trend is 'Margin Support' exactly when
\* divergence_factor > 5 and 'Balanced' otherwise, revenue_trend is
\* 'Decelerating' exactly when the last quarter's revenue growth is below 8
\* and 'Stable' otherwise, and the fallback result has the same keys.
C25_DerivedMetrics ==
    call.fn = "calculate_key_metrics" =>
        /\ call.val.divergence_factor = call.val.pat_cagr - call.val.revenue_cagr
        /\ call.val.profit_trend =
              IF call.val.divergence_factor > 50 THEN "Margin Support" ELSE "Balanced"
        /\ call.val.revenue_trend =
              IF LastQuarterRevenue < 80 THEN "Decelerating" ELSE "Stable"
        /\ DOMAIN KeyMetricsFallback = DOMAIN call.val

\* the last quarter grew by exactly 8
C25_Witness ==
    /\ call.fn = "calculate_key_metrics"
    /\ LastQuarterRevenue = 80
    /\ call.val.revenue_trend = "Stable"
    /\ call.val.profit_trend \in {"Margin Support", "Balanced"}

(***************************************************************************)
(* The constants config.py and data.py both define                         *)
(***************************************************************************)
\* C26: BASE_EPS_FY24 has the same value in config.py as in data.py, and the
\* current Nifty level is the same in config.CURRENT_NIFTY, in
\* metrics['nifty_current'] and as the starting level of the Scenarios
\* page's return.
C26_ConstantsAgree ==
    /\ call.fn = "calculate_nifty_levels" =>
          DataConfiguration.BASE_EPS_FY24 = BASE_EPS_FY24
    /\ call.fn = "calculate_key_metrics" =>
          /\ call.val.nifty_current = DataConfiguration.CURRENT_NIFTY
          /\ call.val.nifty_current = StartingNifty

(***************************************************************************)
(* The labels of the Nifty Target chart                                    *)
(***************************************************************************)
\* C27: the labels of the Scenarios chart show each projected level in
\* thousands with one decimal place; for the Base Case they read 56.7K,
\* 61.7K and 68.0K.
C27_LabelsOneDecimal ==
    call.fn = "level_labels" =>
        /\ \A i \in DOMAIN call.val :
              /\ Len(call.val[i]) >= 4
              /\ call.val[i][Len(call.val[i]) - 2] = "."
        /\ call.arg = BaseCaseName =>
              call.val = << <<"5", "6", ".", "7", "K">>,
                            <<"6", "1", ".", "7", "K">>,
                            <<"6", "8", ".", "0", "K">> >>

(***************************************************************************)
(* Sector Analysis: the boxes of the Risk Assessment and the Status tags   *)
(***************************************************************************)
ColStatus == <<"S", "t", "a", "t", "u", "s">>

\* the text holds the word
HasWord(text, word) ==
    \E i \in 1..(Len(text) - Len(word) + 1) : SubSeq(text, i, i + Len(word) - 1) = word

\* the names of the sectors whose Status holds one of the words
SectorsTagged(words) ==
    {Cell(sector, r, ColSector).s : r \in
        {r \in 1..NRows(sector) : \E w \in words : HasWord(Cell(sector, r, ColStatus).s, w)}}

BoxNames(boxes) == {boxes[i] : i \in DOMAIN boxes}

\* C28: on the Sector Analysis page the sectors shown as crisis (profit
\* growth below -20) are exactly those whose Status says CRISIS, the sectors
\* shown as strong (profit growth above 25) are exactly those whose Status
\* says STRONG or EXCEPTIONAL, and no sector is shown as both.
C28_FlagsAgreeWithStatus ==
    call.fn = "risk_assessment" =>
        /\ BoxNames(call.val.warning) = SectorsTagged({<<"C", "R", "I", "S", "I", "S">>})
        /\ BoxNames(call.val.success) =
              SectorsTagged({<<"S", "T", "R", "O", "N", "G">>,
                             <<"E", "X", "C", "E", "P", "T", "I", "O", "N", "A", "L">>})
        /\ BoxNames(call.val.warning) \cap BoxNames(call.val.success) = {}

\* one crisis sector and three strong ones are shown
C28_Witness ==
    /\ call.fn = "risk_assessment"
    /\ Len(call.val.warning) = 1
    /\ Len(call.val.success) = 3
    /\ <<"I", "n", "d", "u", "s", "t", "r", "i", "a", "l", "s">> \in BoxNames(call.val.success)

====
